---- MODULE Spec2Model ----
(***************************************************************************)
(* A model of the investigation pipeline of the pr-review-guide action:     *)
(*   - the single-analyst tool-use loop (analyst-agent.ts, runSingleAnalyst *)
(*     and forceAnalystSummary), specification SpecAgent;                   *)
(*   - the parallel orchestrator (analyst-agent.ts, runParallelAnalysts,    *)
(*     withTimeout, mergeAnalystSummaries), specification SpecOrch;         *)
(*   - the planning stage of run() (pr-review-guide.ts) with the validator  *)
(*     of the planner's output (planner.ts, parsePlannerOutput),            *)
(*     specification SpecRun;                                               *)
(*   - the snapping of a requested line onto the commentable lines of a     *)
(*     file (pr-review-guide.ts, snapToValidLine, findClosest),             *)
(*     specification SpecSnap;                                              *)
(*   - the diff tools (diff-tools.ts: parseDiff, buildDiffOverview, the     *)
(*     get_diff_for_file executor), specification SpecDiff.                 *)
(*                                                                         *)
(* Texts are sequences of tokens: the token " " is a whitespace character,  *)
(* every other token is a non-blank piece of text.  Lengths of tool         *)
(* results are the JavaScript string lengths.                               *)
(***************************************************************************)
EXTENDS Integers, Sequences, FiniteSets, TLC

VARIABLES
    \* ---- runSingleAnalyst (one agent) ----
    max_tool_calls,        \* task.max_tool_calls of the task being run
    pc,                    \* where the loop is suspended
    iterations,            \* let iterations
    toolCallCount,         \* let toolCallCount
    totalToolResultChars,  \* let totalToolResultChars
    messages,              \* const messages: the conversation sent with each request
    response,              \* const response: the last reply of the completion service
    pending,               \* tool_use blocks of the round not yet dispatched/returned
    toolResults,           \* const toolResults of the round
    result,                \* the SingleAnalystResult returned (NoResult before)
    toolRequests,          \* number of messages.create calls with tools enabled
    noToolRequests,        \* number of messages.create calls with tool_choice none
    executed,              \* ids of the tool_use blocks handed to executeTool
    nextId,                \* last tool_use id issued by the completion service
    \* ---- runParallelAnalysts (the orchestrator) ----
    tasks,                 \* config.tasks as submitted
    activeTasks,           \* const activeTasks (sliced, then sorted)
    opc,                   \* where the orchestrator is suspended
    batchStart,            \* the batch loop's i
    wrapper,               \* per active task: state of the withTimeout promise
    agent,                 \* per active task: state of its runSingleAnalyst call
    results,               \* const results: settled outcomes, in push order
    output,                \* the ParallelAnalystResult returned (NoOutput before)
    startOrder,            \* history: indices of the agents in the order they started
    \* ---- run() and the planner ----
    raw,                   \* the text of the planner's reply, as JSON.parse reads it
    plan,                  \* how planInvestigation ended: the plan returned, or raised
    rpc,                   \* where run() is suspended
    reviewerCalls,         \* history: codebaseContext of each analyzeWithClaude call
    postCalls,             \* history: number of postReviewGuide calls
    analystRuns,           \* history: the task list of each runParallelAnalysts call
    warnings,              \* history: the console.warn reports of run()
    \* ---- snapToValidLine ----
    validLines,            \* the ValidLineMap: filename -> [left, right]
    filename,              \* the filename argument
    requestedLine,         \* the requestedLine argument
    side,                  \* the side argument
    snapped,               \* what the call returned (NotCalled before)
    \* ---- the diff tools ----
    rawDiff,               \* the diff text: its lines
    entries,               \* what parseDiff returned
    overview,              \* what buildDiffOverview returned: its lines
    input,                 \* the input of the last get_diff_for_file call
    toolOutput,            \* what that call returned
    dpc,                   \* where the diff tools are
    \* ---- the repository tools ----
    disk,                  \* the file system: absolute path -> what is there
    fileCache,             \* const fileCache: the paths whose lines are cached
    touched,               \* history: the paths the last call handed to node:fs
    toolCall,              \* the last tool_use block dispatched: name and input
    toolOut,               \* what executeTool returned for it
    callsMade,             \* toolCallCount of the round
    fed,                   \* toolResults of the round: one summary per result
    tpc,                   \* where the round is
    \* ---- the inline comments ----
    prFiles,               \* the files of the pull request, as GitHub lists them
    lineMap,               \* what buildValidLineMap returned
    reviewGuide,           \* guide.logical_changes
    inlineComments,        \* what buildInlineComments returned
    cpc                    \* where the comment builder is

agentVars == <<max_tool_calls, pc, iterations, toolCallCount, totalToolResultChars,
               messages, response, pending, toolResults, result, toolRequests,
               noToolRequests, executed, nextId>>

orchVars == <<tasks, activeTasks, opc, batchStart, wrapper, agent, results, output,
              startOrder>>

runVars == <<raw, plan, rpc, reviewerCalls, postCalls, analystRuns, warnings>>

snapVars == <<validLines, filename, requestedLine, side, snapped>>

diffVars == <<rawDiff, entries, overview, input, toolOutput, dpc>>

toolVars == <<disk, fileCache, touched, toolCall, toolOut, callsMade, fed, tpc>>

commentVars == <<prFiles, lineMap, reviewGuide, inlineComments, cpc>>

vars == <<agentVars, orchVars, runVars, snapVars, diffVars, toolVars, commentVars>>

\* the variables an action of one part leaves alone: those of the other parts
otherThanAgent == <<orchVars, runVars, snapVars, diffVars, toolVars, commentVars>>
otherThanOrch == <<agentVars, runVars, snapVars, diffVars, toolVars, commentVars>>
otherThanRun == <<agentVars, orchVars, snapVars, diffVars, toolVars, commentVars>>
otherThanSnap == <<agentVars, orchVars, runVars, diffVars, toolVars, commentVars>>
otherThanDiff == <<agentVars, orchVars, runVars, snapVars, toolVars, commentVars>>
otherThanTools == <<agentVars, orchVars, runVars, snapVars, diffVars, commentVars>>
otherThanComments == <<agentVars, orchVars, runVars, snapVars, diffVars, toolVars>>

IdleToolVars ==
    /\ disk = <<>>
    /\ fileCache = {}
    /\ touched = {}
    /\ toolCall = [name |-> "none"]
    /\ toolOut = [kind |-> "none"]
    /\ callsMade = 0
    /\ fed = <<>>
    /\ tpc = "idle"

IdleCommentVars ==
    /\ prFiles = <<>>
    /\ lineMap = <<>>
    /\ reviewGuide = <<>>
    /\ inlineComments = <<>>
    /\ cpc = "idle"

IdleSnapVars ==
    /\ validLines = <<>>
    /\ filename = ""
    /\ requestedLine = 0
    /\ side = "RIGHT"
    /\ snapped = [called |-> FALSE]

IdleDiffVars ==
    /\ rawDiff = <<>>
    /\ entries = <<>>
    /\ overview = <<>>
    /\ input = [filename |-> <<>>]
    /\ toolOutput = [kind |-> "none"]
    /\ dpc = "idle"

IdleRunVars ==
    /\ raw = [kind |-> "none"]
    /\ plan = [status |-> "none"]
    /\ rpc = "idle"
    /\ reviewerCalls = <<>>
    /\ postCalls = 0
    /\ analystRuns = <<>>
    /\ warnings = <<>>

(***************************************************************************)
(* Configuration constants of analyst-agent.ts.                             *)
(***************************************************************************)
DEFAULT_MAX_ITERATIONS == 20
MAX_TOOL_RESULT_CHARS == 16000
MAX_TOTAL_TOOL_RESULT_CHARS == 70000
MAX_PARALLEL_ANALYSTS == 5
BATCH_SIZE == 2

\* Length of "\n...[TRUNCATED — " and of " chars. Use more specific queries.]"
TRUNCATION_NOTE_PREFIX_LEN == 17
TRUNCATION_NOTE_SUFFIX_LEN == 35

(***************************************************************************)
(* Bounds of the model.                                                     *)
(***************************************************************************)
\* Most tool_use blocks one reply of the completion service carries.
MaxToolUses == 5
\* Most tasks submitted to the orchestrator.
MaxTasks == 6

\* task.max_tool_calls of the task run by SpecAgent.  -1 is an unvalidated
\* budget (the field is an optional number of an exported interface), 0 a
\* task without the field, 5 the smallest budget the planner's validator
\* lets through.
BudgetInputs == {-1, 0, 1, 2, 5}
\* Lengths of the strings executeTool returns: a short result and an
\* oversized one.
ToolResultLengths == {120, 16001}
\* Texts a reply may carry in its text block.
TextInputs == {<<" ">>, <<"a">>}

(***************************************************************************)
(* Text helpers.                                                            *)
(***************************************************************************)
RECURSIVE TrimStart(_)
TrimStart(s) == IF s # <<>> /\ Head(s) = " " THEN TrimStart(Tail(s)) ELSE s

RECURSIVE TrimEnd(_)
TrimEnd(s) ==
    IF s # <<>> /\ s[Len(s)] = " " THEN TrimEnd(SubSeq(s, 1, Len(s) - 1)) ELSE s

\* String.prototype.trim
Trim(s) == TrimEnd(TrimStart(s))

\* Number of decimal digits of n >= 0: the length of `${n}`.
RECURSIVE Digits(_)
Digits(n) == IF n < 10 THEN 1 ELSE 1 + Digits(n \div 10)

(***************************************************************************)
(* Content blocks and messages.                                             *)
(***************************************************************************)
TextBlock(t) == [type |-> "text", text |-> t, id |-> 0, len |-> 0]
ToolUseBlock(i) == [type |-> "tool_use", text |-> <<>>, id |-> i, len |-> 0]
\* len: the length of the content string; content: what the string is made of
ToolResultBlock(i, n, c) ==
    [type |-> "tool_result", text |-> <<>>, id |-> i, len |-> n, content |-> c]
Message(r, c) == [role |-> r, content |-> c]

BlockTypes == {"text", "tool_use", "tool_result"}

RECURSIVE SelectBlocks(_, _)
\* content.filter(b => b.type is in types)
SelectBlocks(content, types) ==
    IF content = <<>> THEN <<>>
    ELSE IF Head(content).type \in types
         THEN <<Head(content)>> \o SelectBlocks(Tail(content), types)
         ELSE SelectBlocks(Tail(content), types)

RECURSIVE JoinText(_)
JoinText(blocks) ==
    IF blocks = <<>> THEN <<>> ELSE Head(blocks).text \o JoinText(Tail(blocks))

\* extractText: the text blocks' texts joined with ""
extractText(resp) == JoinText(SelectBlocks(resp.content, {"text"}))

\* response.content.some(b => b.type === "tool_use")
hasToolUse(resp) == SelectBlocks(resp.content, {"tool_use"}) # <<>>

INITIAL_USER_TEXT == <<"Investigate your assigned concern using the tools.">>
CUT_OFF_TEXT == <<"Your response was cut off. Write a concise final summary. No more tool calls.">>
TRUNCATED_PLACEHOLDER == <<"(response truncated)">>
NO_SUMMARY_PLACEHOLDER == <<"(Response contained only tool calls, no summary provided)">>
UNEXPECTED_EXIT_TEXT == <<"Analyst completed without producing a summary.">>
StopText(overBudget) ==
    IF overBudget
    THEN <<"You've reached your context limit. Write your final summary NOW. No more tool calls.">>
    ELSE <<"You've reached your tool call limit. Write your final summary NOW. No more tool calls.">>

NoResult == [stopReason |-> "none"]
NoResponse == [stop_reason |-> "none", content |-> <<>>]

\* maxIterationsOf taking the default whatever the task asks for
maxIterationsOfAlwaysDefault(m) == DEFAULT_MAX_ITERATIONS

\* const maxIterations = task.max_tool_calls || DEFAULT_MAX_ITERATIONS
maxIterationsOf(m) == IF m = 0 THEN DEFAULT_MAX_ITERATIONS ELSE m
maxIterations == maxIterationsOf(max_tool_calls)

\* buildResult
buildResult(summary, iters, calls, earlyStop, stopReason) ==
    [summary |-> summary, iterations |-> iters, toolCalls |-> calls,
     earlyStop |-> earlyStop, stopReason |-> stopReason]

\* The string put in the conversation for a tool result of n characters:
\* result.slice(0, MAX_TOOL_RESULT_CHARS) + the note when n is over the ceiling.
truncatedLength(n) ==
    IF n > MAX_TOOL_RESULT_CHARS
    THEN MAX_TOOL_RESULT_CHARS + TRUNCATION_NOTE_PREFIX_LEN + Digits(n)
         + TRUNCATION_NOTE_SUFFIX_LEN
    ELSE n

\* truncateResult with the note stating the length of the slice
truncateResultStatesKept(n) ==
    IF n > MAX_TOOL_RESULT_CHARS
    THEN [original |-> n, slice |-> MAX_TOOL_RESULT_CHARS, stated |-> MAX_TOOL_RESULT_CHARS]
    ELSE [original |-> n, slice |-> n, stated |-> 0]

\* What the string put in the conversation is made of, for a tool result of
\* `original` characters: the first `slice` characters of it, then, when it
\* was over the ceiling, the note with `${result.length}` read before the
\* assignment (stated = 0: no note).
truncateResult(n) ==
    IF n > MAX_TOOL_RESULT_CHARS
    THEN [original |-> n, slice |-> MAX_TOOL_RESULT_CHARS, stated |-> n]
    ELSE [original |-> n, slice |-> n, stated |-> 0]

\* The summary kept of a tool-disabled round.
forcedSummaryText(resp) ==
    IF Trim(extractText(resp)) # <<>> THEN extractText(resp) ELSE NO_SUMMARY_PLACEHOLDER

\* Replies of the completion service to a request with tools enabled: an
\* optional text block, then 0..MaxToolUses tool_use blocks with fresh ids.
ToolUseBlocks(k) == [i \in 1..k |-> ToolUseBlock(nextId + i)]
\* stop_reason is tool_use when the reply carries tool_use blocks, end_turn
\* when it carries none, max_tokens when it was cut short (with or without).
\* Runs of more than two rounds are followed with at most one tool_use block
\* a reply and no text beside it.
ReplyToolUses == IF maxIterations <= 2 THEN 0..MaxToolUses ELSE 0..1
ReplyTexts ==
    IF maxIterations <= 2
    THEN {<<>>} \cup {<<TextBlock(t)>> : t \in TextInputs}
    ELSE {<<TextBlock(<<"a">>)>>}
ToolRoundResponses ==
    { [stop_reason |-> IF cut THEN "max_tokens"
                       ELSE IF k > 0 THEN "tool_use" ELSE "end_turn",
       content |-> tb \o ToolUseBlocks(k)] :
        cut \in BOOLEAN,
        tb \in ReplyTexts,
        k \in ReplyToolUses }
\* Runs of more than five rounds get short tool results only.
ResultLengths == IF maxIterations <= 5 THEN ToolResultLengths ELSE {120}
\* Replies to a request with tool_choice none: text only.
TextOnlyResponses ==
    { [stop_reason |-> sr, content |-> tb] :
        sr \in {"end_turn", "max_tokens"},
        tb \in {<<>>} \cup {<<TextBlock(t)>> : t \in TextInputs} }

(***************************************************************************)
(* runSingleAnalyst.                                                        *)
(***************************************************************************)
InitAgentVars ==
    /\ max_tool_calls \in BudgetInputs
    /\ pc = "loop"
    /\ iterations = 0
    /\ toolCallCount = 0
    /\ totalToolResultChars = 0
    /\ messages = <<Message("user", <<TextBlock(INITIAL_USER_TEXT)>>)>>
    /\ response = NoResponse
    /\ pending = <<>>
    /\ toolResults = <<>>
    /\ result = NoResult
    /\ toolRequests = 0
    /\ noToolRequests = 0
    /\ executed = {}
    /\ nextId = 0

IdleOrchVars ==
    /\ tasks = <<>>
    /\ activeTasks = <<>>
    /\ opc = "idle"
    /\ batchStart = 0
    /\ wrapper = <<>>
    /\ agent = <<>>
    /\ results = <<>>
    /\ output = [status |-> "none"]
    /\ startOrder = <<>>

InitAgent ==
    /\ InitAgentVars
    /\ IdleOrchVars
    /\ IdleRunVars
    /\ IdleSnapVars
    /\ IdleDiffVars
    /\ IdleToolVars
    /\ IdleCommentVars

\* while (iterations < maxIterations) { iterations++; await client.messages.create(...)
LoopEnter ==
    /\ pc = "loop"
    /\ iterations < maxIterations
    /\ iterations' = iterations + 1
    /\ toolRequests' = toolRequests + 1
    /\ pc' = "await_response"
    /\ UNCHANGED <<max_tool_calls, toolCallCount, totalToolResultChars, messages,
                   response, pending, toolResults, result, noToolRequests, executed,
                   nextId>>
    /\ UNCHANGED otherThanAgent

\* the loop condition is false: the return after the loop
LoopExit ==
    /\ pc = "loop"
    /\ ~(iterations < maxIterations)
    /\ result' = buildResult(UNEXPECTED_EXIT_TEXT, iterations, toolCallCount, TRUE,
                             "unexpected_exit")
    /\ pc' = "done"
    /\ UNCHANGED <<max_tool_calls, iterations, toolCallCount, totalToolResultChars,
                   messages, response, pending, toolResults, toolRequests,
                   noToolRequests, executed, nextId>>
    /\ UNCHANGED otherThanAgent

\* RespondTruncated pushing the reply as it came, tool_use fragments included
RespondTruncatedUnfiltered(resp) ==
    /\ resp.stop_reason = "max_tokens"
    /\ messages' = messages \o
          << Message("assistant",
                     IF Len(resp.content) > 0 THEN resp.content
                     ELSE <<TextBlock(TRUNCATED_PLACEHOLDER)>>),
             Message("user", <<TextBlock(CUT_OFF_TEXT)>>) >>
    /\ noToolRequests' = noToolRequests + 1
    /\ pc' = "await_forced"
    /\ UNCHANGED <<toolCallCount, pending, toolResults, result, executed>>

\* response.stop_reason === "max_tokens": forceAnalystSummary up to its request
RespondTruncated(resp) ==
    /\ resp.stop_reason = "max_tokens"
    /\ LET safeContent == SelectBlocks(resp.content, BlockTypes \ {"tool_use"})
       IN messages' = messages \o
            << Message("assistant",
                       IF Len(safeContent) > 0 THEN safeContent
                       ELSE <<TextBlock(TRUNCATED_PLACEHOLDER)>>),
               Message("user", <<TextBlock(CUT_OFF_TEXT)>>) >>
    /\ noToolRequests' = noToolRequests + 1
    /\ pc' = "await_forced"
    /\ UNCHANGED <<toolCallCount, pending, toolResults, result, executed>>

\* RespondComplete going through the forced summary instead of returning
RespondCompleteForced(resp) ==
    /\ resp.stop_reason # "max_tokens"
    /\ ~hasToolUse(resp)
    /\ messages' = messages \o
          << Message("assistant", resp.content \o <<TextBlock(TRUNCATED_PLACEHOLDER)>>),
             Message("user", <<TextBlock(CUT_OFF_TEXT)>>) >>
    /\ noToolRequests' = noToolRequests + 1
    /\ pc' = "await_forced"
    /\ UNCHANGED <<toolCallCount, pending, toolResults, result, executed>>

\* no tool_use block: the normal completion
RespondComplete(resp) ==
    /\ resp.stop_reason # "max_tokens"
    /\ ~hasToolUse(resp)
    /\ result' = buildResult(extractText(resp), iterations, toolCallCount, FALSE,
                             "complete")
    /\ pc' = "done"
    /\ UNCHANGED <<toolCallCount, messages, pending, toolResults, noToolRequests,
                   executed>>

\* tool_use blocks: push the assistant turn, dispatch the first tool call
RespondToolUse(resp) ==
    /\ resp.stop_reason # "max_tokens"
    /\ hasToolUse(resp)
    /\ messages' = Append(messages, Message("assistant", resp.content))
    /\ toolResults' = <<>>
    /\ pending' = SelectBlocks(resp.content, {"tool_use"})
    /\ toolCallCount' = toolCallCount + 1
    /\ executed' = executed \cup {Head(pending').id}
    /\ pc' = "await_tool"
    /\ UNCHANGED <<result, noToolRequests>>

\* the completion service answers a request of the loop
Respond ==
    /\ pc = "await_response"
    /\ \E resp \in ToolRoundResponses :
        /\ response' = resp
        /\ nextId' = nextId + Len(SelectBlocks(resp.content, {"tool_use"}))
        /\ \/ RespondTruncated(resp)
           \/ RespondComplete(resp)
           \/ RespondToolUse(resp)
    /\ UNCHANGED <<max_tool_calls, iterations, totalToolResultChars, toolRequests>>
    /\ UNCHANGED otherThanAgent

\* ForceStop leaving the round's tool results out of the pushed message
ForceStopDropsResults(allResults, total) ==
    /\ total > MAX_TOTAL_TOOL_RESULT_CHARS \/ iterations >= maxIterations
    /\ messages' = Append(messages,
          Message("user", <<TextBlock(StopText(total > MAX_TOTAL_TOOL_RESULT_CHARS))>>))
    /\ noToolRequests' = noToolRequests + 1
    /\ pc' = "await_final"

\* the budget check after the round's last tool result, over budget:
\* push results and stop instruction, request the final summary
ForceStop(allResults, total) ==
    /\ total > MAX_TOTAL_TOOL_RESULT_CHARS \/ iterations >= maxIterations
    /\ messages' = Append(messages,
          Message("user", allResults \o
                  <<TextBlock(StopText(total > MAX_TOTAL_TOOL_RESULT_CHARS))>>))
    /\ noToolRequests' = noToolRequests + 1
    /\ pc' = "await_final"

\* ContinueLoop pushing the round's results without the first one
ContinueLoopSkipsFirstResult(allResults, total) ==
    /\ ~(total > MAX_TOTAL_TOOL_RESULT_CHARS \/ iterations >= maxIterations)
    /\ messages' = Append(messages, Message("user", Tail(allResults)))
    /\ noToolRequests' = noToolRequests
    /\ pc' = "loop"

\* ContinueLoop going round whatever the number of rounds made
ContinueLoopPastLastRound(allResults, total) ==
    /\ ~(total > MAX_TOTAL_TOOL_RESULT_CHARS)
    /\ messages' = Append(messages, Message("user", allResults))
    /\ noToolRequests' = noToolRequests
    /\ pc' = "loop"

\* within budget: push the results and go round the loop
ContinueLoop(allResults, total) ==
    /\ ~(total > MAX_TOTAL_TOOL_RESULT_CHARS \/ iterations >= maxIterations)
    /\ messages' = Append(messages, Message("user", allResults))
    /\ noToolRequests' = noToolRequests
    /\ pc' = "loop"

\* executeTool returns a string of n characters
ToolReturn ==
    /\ pc = "await_tool"
    /\ \E n \in ResultLengths :
        LET block == Head(pending)
            kept == truncatedLength(n)
            total == totalToolResultChars + kept
            allResults == Append(toolResults,
                                 ToolResultBlock(block.id, kept, truncateResult(n)))
        IN /\ totalToolResultChars' = total
           /\ toolResults' = allResults
           /\ pending' = Tail(pending)
           /\ IF Tail(pending) # <<>>
              THEN /\ toolCallCount' = toolCallCount + 1
                   /\ executed' = executed \cup {Head(Tail(pending)).id}
                   /\ pc' = "await_tool"
                   /\ UNCHANGED <<messages, noToolRequests>>
              ELSE /\ UNCHANGED <<toolCallCount, executed>>
                   /\ \/ ForceStop(allResults, total)
                      \/ ContinueLoop(allResults, total)
    /\ UNCHANGED <<max_tool_calls, iterations, response, result, toolRequests, nextId>>
    /\ UNCHANGED otherThanAgent

\* the reply to the tool-disabled request of the budget check
FinalResponse ==
    /\ pc = "await_final"
    /\ \E resp \in TextOnlyResponses :
        /\ response' = resp
        /\ result' = buildResult(
              forcedSummaryText(resp), iterations, toolCallCount, TRUE,
              IF totalToolResultChars > MAX_TOTAL_TOOL_RESULT_CHARS
              THEN "context_budget" ELSE "max_iterations")
    /\ pc' = "done"
    /\ UNCHANGED <<max_tool_calls, iterations, toolCallCount, totalToolResultChars,
                   messages, pending, toolResults, toolRequests, noToolRequests,
                   executed, nextId>>
    /\ UNCHANGED otherThanAgent

\* the reply to forceAnalystSummary's request
ForcedResponse ==
    /\ pc = "await_forced"
    /\ \E resp \in TextOnlyResponses :
        /\ response' = resp
        /\ result' = buildResult(forcedSummaryText(resp), iterations, toolCallCount,
                                 TRUE, "max_tokens")
    /\ pc' = "done"
    /\ UNCHANGED <<max_tool_calls, iterations, toolCallCount, totalToolResultChars,
                   messages, pending, toolResults, toolRequests, noToolRequests,
                   executed, nextId>>
    /\ UNCHANGED otherThanAgent

\* client.messages.create rejects (an API error after the client's retries)
RequestFails ==
    /\ pc \in {"await_response", "await_final", "await_forced"}
    /\ pc' = "raised"
    /\ UNCHANGED <<max_tool_calls, iterations, toolCallCount, totalToolResultChars,
                   messages, response, pending, toolResults, result, toolRequests,
                   noToolRequests, executed, nextId>>
    /\ UNCHANGED otherThanAgent

NextAgent ==
    \/ LoopEnter
    \/ LoopExit
    \/ Respond
    \/ ToolReturn
    \/ FinalResponse
    \/ ForcedResponse
    \/ RequestFails

SpecAgent == InitAgent /\ [][NextAgent]_vars

\* every awaited completion request and tool call returns, and the loop runs on
AgentProgress ==
    LoopEnter \/ LoopExit \/ Respond \/ ToolReturn \/ FinalResponse \/ ForcedResponse

SpecAgentLive == InitAgent /\ [][NextAgent]_vars /\ WF_vars(AgentProgress)

(***************************************************************************)
(* runParallelAnalysts.  A task is [id, priority]; ids are the planner's    *)
(* analyst_1, analyst_2, ... (the position in the submitted list).  The     *)
(* agent of an active task is modelled by how its runSingleAnalyst call     *)
(* ends: it returns a SingleAnalystResult or it raises; its state is idle,  *)
(* running or finished, and the outcome is what its wrapper promise keeps.  *)
(***************************************************************************)
Priorities == {"critical", "high", "medium"}
\* Priorities of the submitted tasks: two levels, enough for the sort to reorder.
PriorityInputs == {"critical", "medium"}

\* const priorityOrder = { critical: 0, high: 1, medium: 2 }, ?? 3
priorityOrder(p) ==
    CASE p = "critical" -> 0
      [] p = "high" -> 1
      [] p = "medium" -> 2
      [] OTHER -> 3

\* InsertByPriority placing x before the elements of its own priority
InsertByPriorityBeforeEquals(sorted, x) ==
    LET later == {i \in DOMAIN sorted :
                    priorityOrder(sorted[i].priority) >= priorityOrder(x.priority)}
    IN IF later = {} THEN Append(sorted, x)
       ELSE LET k == CHOOSE i \in later : \A j \in later : i <= j
            IN SubSeq(sorted, 1, k - 1) \o <<x>> \o SubSeq(sorted, k, Len(sorted))

RECURSIVE InsertByPriority(_, _)
\* x placed after every element whose priority is not lower than its own
InsertByPriority(sorted, x) ==
    IF sorted = <<>> THEN <<x>>
    ELSE IF priorityOrder(Head(sorted).priority) <= priorityOrder(x.priority)
         THEN <<Head(sorted)>> \o InsertByPriority(Tail(sorted), x)
         ELSE <<x>> \o sorted

RECURSIVE SortByPriority(_)
\* Array.prototype.sort with the priorityOrder comparator (a stable sort)
SortByPriority(s) ==
    IF s = <<>> THEN <<>>
    ELSE InsertByPriority(SortByPriority(SubSeq(s, 1, Len(s) - 1)), s[Len(s)])

\* tasks.slice(0, n)
Slice(s, n) == SubSeq(s, 1, IF Len(s) < n THEN Len(s) ELSE n)

\* const activeTasks = tasks.slice(0, MAX_PARALLEL_ANALYSTS); activeTasks.sort(...)
ActiveTasksOf(ts) == SortByPriority(Slice(ts, MAX_PARALLEL_ANALYSTS))

\* indices (1-based) of activeTasks.slice(i, i + BATCH_SIZE)
BatchIndices(i, n) == {k \in 1..n : i < k /\ k <= i + BATCH_SIZE}

\* The SingleAnalystResult of the agent of task t, as far as the orchestrator reads it
AnalystResultOf(t) == [taskId |-> t.id, priority |-> t.priority]

\* the settled outcome Promise.allSettled reports for the wrapper of task k
SettledOf(k, w, acts) ==
    IF w[k] = "fulfilled"
    THEN [status |-> "fulfilled", value |-> AnalystResultOf(acts[k])]
    ELSE [status |-> "rejected", value |-> [taskId |-> 0, priority |-> "none"]]

RECURSIVE SettledBatch(_, _, _, _)
\* batchResults: the outcomes of the wrappers i+1 .. last, in batch order
SettledBatch(k, last, w, acts) ==
    IF k > last THEN <<>>
    ELSE <<SettledOf(k, w, acts)>> \o SettledBatch(k + 1, last, w, acts)

RECURSIVE CollectAnalysts(_)
\* the loop over results: analysts.push(result.value) for the fulfilled ones
CollectAnalysts(rs) ==
    IF rs = <<>> THEN <<>>
    ELSE IF Head(rs).status = "fulfilled"
         THEN <<Head(rs).value>> \o CollectAnalysts(Tail(rs))
         ELSE CollectAnalysts(Tail(rs))

\* FailedTaskAt reading the submitted list instead of the sorted one
FailedTaskAtSubmitted(i, acts) == tasks[i]

\* the task whose id is pushed to failedTasks for results[i]
FailedTaskAt(i, acts) == acts[i]

RECURSIVE CollectFailedSkipsLast(_, _, _)
\* CollectFailed with a loop bound one short
CollectFailedSkipsLast(rs, i, acts) ==
    IF i >= Len(rs) THEN <<>>
    ELSE IF rs[i].status = "fulfilled"
         THEN CollectFailedSkipsLast(rs, i + 1, acts)
         ELSE <<FailedTaskAt(i, acts).id>> \o CollectFailedSkipsLast(rs, i + 1, acts)

RECURSIVE CollectFailed(_, _, _)
\* the loop over results: failedTasks.push(activeTasks[i].id) for the rejected ones
CollectFailed(rs, i, acts) ==
    IF i > Len(rs) THEN <<>>
    ELSE IF rs[i].status = "fulfilled"
         THEN CollectFailed(rs, i + 1, acts)
         ELSE <<FailedTaskAt(i, acts).id>> \o CollectFailed(rs, i + 1, acts)

\* mergeAnalystSummaries: a header, one section per result in priority order,
\* and a trailing section naming the failed tasks when there are any
mergeAnalystSummaries(analysts, failedTasks) ==
    <<[kind |-> "header", taskId |-> 0, failed |-> failedTasks]>>
    \o [j \in 1..Len(analysts) |->
          [kind |-> "result", taskId |-> SortByPriority(analysts)[j].taskId,
           failed |-> <<>>]]
    \o (IF Len(failedTasks) > 0
        THEN <<[kind |-> "failed", taskId |-> 0, failed |-> failedTasks]>>
        ELSE <<>>)

\* the ParallelAnalystResult built after the last batch
OutputOf(rs, acts) ==
    LET analysts == CollectAnalysts(rs)
        failedTasks == CollectFailed(rs, 1, acts)
    IN [status |-> "returned", analysts |-> analysts, failedTasks |-> failedTasks,
        mergedContext |-> mergeAnalystSummaries(analysts, failedTasks)]

TaskLists ==
    UNION { { [i \in 1..n |-> [id |-> i, priority |-> ps[i]]] : ps \in [1..n -> PriorityInputs] }
            : n \in 0..MaxTasks }

IdleAgentVars ==
    /\ max_tool_calls = 1
    /\ pc = "idle"
    /\ iterations = 0
    /\ toolCallCount = 0
    /\ totalToolResultChars = 0
    /\ messages = <<>>
    /\ response = NoResponse
    /\ pending = <<>>
    /\ toolResults = <<>>
    /\ result = NoResult
    /\ toolRequests = 0
    /\ noToolRequests = 0
    /\ executed = {}
    /\ nextId = 0

InitOrch ==
    /\ IdleAgentVars
    /\ IdleToolVars
    /\ IdleCommentVars
    /\ IdleRunVars
    /\ IdleSnapVars
    /\ IdleDiffVars
    /\ tasks \in TaskLists
    /\ activeTasks = <<>>
    /\ opc = "start"
    /\ batchStart = 0
    /\ wrapper = <<>>
    /\ agent = <<>>
    /\ results = <<>>
    /\ output = [status |-> "none"]
    /\ startOrder = <<>>

\* batch.map(task => withTimeout(() => runSingleAnalyst(...))) for the batch at i:
\* every wrapper of the batch sets its timer and calls its agent
StartBatch(i, w, a) ==
    /\ wrapper' = [k \in DOMAIN w |-> IF k \in BatchIndices(i, Len(w)) THEN "pending" ELSE w[k]]
    /\ agent' = [k \in DOMAIN a |-> IF k \in BatchIndices(i, Len(a)) THEN "running" ELSE a[k]]
    /\ startOrder' = startOrder \o
          [j \in 1..Cardinality(BatchIndices(i, Len(w))) |-> i + j]
    /\ opc' = "await_batch"

\* the return after the batch loop
ReturnOutput(rs, acts) ==
    /\ output' = OutputOf(rs, acts)
    /\ opc' = "returned"

\* the call: slice, sort, and the first batch (or the return when there is no task)
Launch ==
    /\ opc = "start"
    /\ activeTasks' = ActiveTasksOf(tasks)
    /\ batchStart' = 0
    /\ results' = <<>>
    /\ IF Len(activeTasks') > 0
       THEN /\ StartBatch(0, [k \in 1..Len(activeTasks') |-> "idle"],
                             [k \in 1..Len(activeTasks') |-> "idle"])
            /\ UNCHANGED output
       ELSE /\ ReturnOutput(<<>>, activeTasks')
            /\ wrapper' = <<>>
            /\ agent' = <<>>
            /\ UNCHANGED startOrder
    /\ UNCHANGED tasks
    /\ UNCHANGED otherThanOrch

\* ResolveWrapper overwriting the outcome of a wrapper that already timed out
ResolveWrapperLate(k) ==
    wrapper' = [wrapper EXCEPT ![k] = IF @ \in {"pending", "timed_out"} THEN "fulfilled" ELSE @]

\* the then-callback of withTimeout: clearTimeout, resolve (no effect on a settled promise)
ResolveWrapper(k) ==
    wrapper' = [wrapper EXCEPT ![k] = IF @ = "pending" THEN "fulfilled" ELSE @]

\* the catch-callback of withTimeout: clearTimeout, reject (no effect on a settled promise)
RejectWrapper(k) ==
    wrapper' = [wrapper EXCEPT ![k] = IF @ = "pending" THEN "rejected" ELSE @]

\* runSingleAnalyst of task k returns its result
AgentReturns ==
    /\ \E k \in DOMAIN agent :
        /\ agent[k] = "running"
        /\ agent' = [agent EXCEPT ![k] = "finished"]
        /\ ResolveWrapper(k)
    /\ UNCHANGED <<tasks, activeTasks, opc, batchStart, results, output, startOrder>>
    /\ UNCHANGED otherThanOrch

\* runSingleAnalyst of task k raises (a completion request failed)
AgentRaises ==
    /\ \E k \in DOMAIN agent :
        /\ agent[k] = "running"
        /\ agent' = [agent EXCEPT ![k] = "finished"]
        /\ RejectWrapper(k)
    /\ UNCHANGED <<tasks, activeTasks, opc, batchStart, results, output, startOrder>>
    /\ UNCHANGED otherThanOrch

\* the timer of withTimeout fires: reject(new Error(message)); the agent is not stopped
Timeout ==
    /\ \E k \in DOMAIN wrapper :
        /\ wrapper[k] = "pending"
        /\ wrapper' = [wrapper EXCEPT ![k] = "timed_out"]
    /\ UNCHANGED <<tasks, activeTasks, opc, batchStart, agent, results, output, startOrder>>
    /\ UNCHANGED otherThanOrch

\* BatchIsSettled resuming as soon as one wrapper is settled (a race, not allSettled)
BatchAnySettled(i) == \E k \in BatchIndices(i, Len(wrapper)) : wrapper[k] # "pending"

\* Promise.allSettled resolves once every wrapper of the batch is settled
BatchIsSettled(i) == \A k \in BatchIndices(i, Len(wrapper)) : wrapper[k] # "pending"

\* await Promise.allSettled(...) resumes: results.push(...batchResults), i += BATCH_SIZE,
\* then the delay before the next batch, or the collection and the return
BatchSettled ==
    /\ opc = "await_batch"
    /\ BatchIsSettled(batchStart)
    /\ LET last == IF batchStart + BATCH_SIZE < Len(activeTasks)
                   THEN batchStart + BATCH_SIZE ELSE Len(activeTasks)
           rs == results \o SettledBatch(batchStart + 1, last, wrapper, activeTasks)
       IN /\ results' = rs
          /\ batchStart' = batchStart + BATCH_SIZE
          /\ IF batchStart' < Len(activeTasks)
             THEN /\ opc' = "delay"
                  /\ UNCHANGED output
             ELSE ReturnOutput(rs, activeTasks)
    /\ UNCHANGED <<tasks, activeTasks, wrapper, agent, startOrder>>
    /\ UNCHANGED otherThanOrch

\* the BATCH_DELAY_MS timer fires: the next batch starts
DelayElapsed ==
    /\ opc = "delay"
    /\ StartBatch(batchStart, wrapper, agent)
    /\ UNCHANGED <<tasks, activeTasks, batchStart, results, output>>
    /\ UNCHANGED otherThanOrch

NextOrch ==
    \/ Launch
    \/ AgentReturns
    \/ AgentRaises
    \/ Timeout
    \/ BatchSettled
    \/ DelayElapsed

SpecOrch == InitOrch /\ [][NextOrch]_vars

(***************************************************************************)
(* The planner's output and its validator (planner.ts): a JavaScript value  *)
(* read from the planner's JSON is [t, n]: a number n (t = "num"), NaN,     *)
(* an absent field (undefined), or a string that is not a number ("text").  *)
(***************************************************************************)
Num(k) == [t |-> "num", n |-> k]
NaN == [t |-> "nan", n |-> 0]
Absent == [t |-> "absent", n |-> 0]
NonNumericText == [t |-> "text", n |-> 0]

\* ToBoolean: undefined, NaN and 0 are falsy, a non-empty string is truthy
Truthy(v) == v.t = "text" \/ (v.t = "num" /\ v.n # 0)
\* v || d
OrElse(v, d) == IF Truthy(v) THEN v ELSE Num(d)
\* ToNumber: a string that is not a number, and undefined, give NaN
ToNumber(v) == IF v.t = "num" THEN v ELSE NaN
\* Math.max(a, b) and Math.min(a, b): NaN when an argument converts to NaN
MathMax(a, b) ==
    IF ToNumber(a).t = "nan" \/ ToNumber(b).t = "nan" THEN NaN
    ELSE Num(IF a.n >= b.n THEN a.n ELSE b.n)
MathMin(a, b) ==
    IF ToNumber(a).t = "nan" \/ ToNumber(b).t = "nan" THEN NaN
    ELSE Num(IF a.n <= b.n THEN a.n ELSE b.n)
\* a + b on numbers
Plus(a, b) == IF a.t = "nan" \/ b.t = "nan" THEN NaN ELSE Num(a.n + b.n)
\* a > k: false when a is NaN
GreaterThan(a, k) == a.t = "num" /\ a.n > k

DEFAULT_TOOL_CALLS == 12
MIN_TOOL_CALLS == 5
MAX_TOOL_CALLS == 25
MAX_TOTAL_BUDGET == 70
TASK_CAP == 10

VALID_CONCERN_TYPES ==
    {"blast_radius", "conventions", "test_coverage", "error_handling", "security",
     "dependencies", "architecture", "data_integrity", "other"}
VALID_PRIORITIES == {"critical", "high", "medium"}

\* the longest task list the planner sends
MaxPlannerTasks == 12

\* priorities and budgets the planner writes: a priority outside the
\* enumeration; a budget absent, below the range, inside it, above it, or a
\* string that is not a number
PlannerPriorities == {"critical", "medium", "urgent"}
RequestedBudgets == {Absent, Num(3), Num(20), Num(40), NonNumericText}

\* a well-formed task of the planner
BaseTask ==
    [isObject |-> TRUE, hasId |-> TRUE, title |-> "t", scope |-> "s",
     concern_type |-> "security", priority |-> "high",
     questions |-> [isArray |-> TRUE, items |-> <<"q">>],
     max_tool_calls |-> Num(20)]
\* the tasks the planner sends: every priority with every budget, and the
\* well-formed task with one field broken
TaskShapes ==
    {BaseTask}
    \cup {[BaseTask EXCEPT !.priority = p, !.max_tool_calls = b] :
             p \in PlannerPriorities, b \in RequestedBudgets}
    \cup {[BaseTask EXCEPT !.isObject = FALSE],
          [BaseTask EXCEPT !.hasId = FALSE],
          [BaseTask EXCEPT !.title = ""],
          [BaseTask EXCEPT !.scope = ""],
          [BaseTask EXCEPT !.concern_type = "performance"],
          [BaseTask EXCEPT !.questions = [isArray |-> FALSE, items |-> <<>>]],
          [BaseTask EXCEPT !.questions = [isArray |-> TRUE, items |-> <<>>]],
          [BaseTask EXCEPT !.questions = [isArray |-> TRUE, items |-> <<"">>]],
          [BaseTask EXCEPT !.questions = [isArray |-> TRUE, items |-> <<"", "q">>]]}
\* the task of shape s at position i of parsed.tasks: its id is analyst_i
\* (the number i), or absent (0); pos is the identity of the task object
TaskAt(s, i) ==
    [isObject |-> s.isObject, id |-> IF s.hasId THEN i ELSE 0, title |-> s.title,
     scope |-> s.scope, concern_type |-> s.concern_type, priority |-> s.priority,
     questions |-> s.questions, max_tool_calls |-> s.max_tool_calls, pos |-> i]
\* a task list: a tasks of one shape followed by b tasks of another
RunsOf(s1, a, s2, b) == [i \in 1..(a + b) |-> TaskAt(IF i <= a THEN s1 ELSE s2, i)]
\* what the planner's reply is after JSON.parse when it carries no task list:
\* not JSON at all, the value null, or an object whose tasks is not an array
RepliesWithoutList == {[kind |-> "unparseable"], [kind |-> "null"], [kind |-> "not_array"]}
\* a reply whose tasks field is the array ts
ReplyWithTasks(ts) == [kind |-> "list", tasks |-> ts]

\* !task || typeof task !== "object" || !task.id || !task.title || !task.scope
MissingRequired(t) == ~t.isObject \/ t.id = 0 \/ t.title = "" \/ t.scope = ""

IsTruthyText(q) == q # ""
\* FilterTruthy without the filter: every element of the array is kept
FilterTruthyKeepAll(items) == items
\* questions.filter(Boolean)
FilterTruthy(items) == SelectSeq(items, IsTruthyText)
\* Array.isArray(task.questions) ? task.questions.filter(Boolean) : []
questionsOf(t) == IF t.questions.isArray THEN FilterTruthy(t.questions.items) ELSE <<>>

\* Math.min(Math.max(task.max_tool_calls || 12, 5), 25)
clampBudget(v) ==
    MathMin(MathMax(OrElse(v, DEFAULT_TOOL_CALLS), Num(MIN_TOOL_CALLS)), Num(MAX_TOOL_CALLS))

\* the task as pushed: concern_type, priority, questions and budget normalised
NormalizedTask(t) ==
    [id |-> t.id, title |-> t.title, scope |-> t.scope,
     concern_type |-> IF t.concern_type \in VALID_CONCERN_TYPES
                      THEN t.concern_type ELSE "other",
     priority |-> IF t.priority \in VALID_PRIORITIES THEN t.priority ELSE "medium",
     questions |-> questionsOf(t),
     max_tool_calls |-> clampBudget(t.max_tool_calls),
     pos |-> t.pos]

RECURSIVE ValidatedTasks(_)
\* the loop over parsed.tasks: the tasks pushed, in planner order
ValidatedTasks(ts) ==
    IF ts = <<>> THEN <<>>
    ELSE IF MissingRequired(Head(ts)) \/ questionsOf(Head(ts)) = <<>>
         THEN ValidatedTasks(Tail(ts))
         ELSE <<NormalizedTask(Head(ts))>> \o ValidatedTasks(Tail(ts))

RECURSIVE TotalBudget(_)
\* totalBudget: 0 plus the budget of every pushed task
TotalBudget(ts) ==
    IF ts = <<>> THEN Num(0)
    ELSE Plus(TotalBudget(SubSeq(ts, 1, Len(ts) - 1)), ts[Len(ts)].max_tool_calls)

\* ScaledBudget rounding to the nearest integer instead of down
ScaledBudgetRounded(b, total) ==
    MathMax(Num(MIN_TOOL_CALLS),
            Num((2 * OrElse(b, DEFAULT_TOOL_CALLS).n * MAX_TOTAL_BUDGET + total) \div (2 * total)))
\* Math.max(5, Math.floor((task.max_tool_calls || 12) * scale)) with
\* scale = MAX_TOTAL_BUDGET / totalBudget; for budgets 5..25 and the totals
\* above 70 the double-precision product floors to the exact quotient
ScaledBudget(b, total) ==
    MathMax(Num(MIN_TOOL_CALLS),
            Num((OrElse(b, DEFAULT_TOOL_CALLS).n * MAX_TOTAL_BUDGET) \div total))

\* if (totalBudget > MAX_TOTAL_BUDGET) every task.max_tool_calls is rescaled
ScaleDown(ts) ==
    IF GreaterThan(TotalBudget(ts), MAX_TOTAL_BUDGET)
    THEN [j \in DOMAIN ts |->
            [ts[j] EXCEPT !.max_tool_calls = ScaledBudget(@, TotalBudget(ts).n)]]
    ELSE ts

\* if (tasks.length > 10) tasks.length = 10
CapTasks(ts) == IF Len(ts) > TASK_CAP THEN SubSeq(ts, 1, TASK_CAP) ELSE ts

\* HasNoTasks without the test for an empty array
HasNoTasksNotArrayOnly(r) == r.kind # "list"
\* !Array.isArray(parsed.tasks) || parsed.tasks.length === 0
HasNoTasks(r) == r.kind # "list" \/ Len(r.tasks) = 0

\* parsePlannerOutput(raw): how the call ends
parsePlannerOutput(r) ==
    IF r.kind = "unparseable" THEN [status |-> "raised", error |-> "not_valid_json"]
    ELSE IF r.kind = "null" THEN [status |-> "raised", error |-> "type_error"]
    ELSE IF HasNoTasks(r) THEN [status |-> "raised", error |-> "no_tasks"]
    ELSE [status |-> "returned", tasks |-> CapTasks(ScaleDown(ValidatedTasks(r.tasks)))]

(***************************************************************************)
(* run(), from stage 1 on (pr-review-guide.ts).  The reviewer is            *)
(* analyzeWithClaude; a call of it is recorded with the codebaseContext it  *)
(* is given ("" or "merged").  runParallelAnalysts returns a result for     *)
(* every task list (the orchestrator above), so the catch of stage 2 is     *)
(* never entered.                                                           *)
(***************************************************************************)
InitRun ==
    /\ IdleAgentVars
    /\ IdleToolVars
    /\ IdleCommentVars
    /\ IdleOrchVars
    /\ IdleSnapVars
    /\ IdleDiffVars
    /\ \/ raw \in RepliesWithoutList
       \/ \E a \in 0..MaxPlannerTasks : \E b \in 0..(MaxPlannerTasks - a) :
            \E s1 \in TaskShapes : \E s2 \in TaskShapes :
                raw = ReplyWithTasks(RunsOf(s1, a, s2, b))
    /\ plan = [status |-> "none"]
    /\ rpc = "planning"
    /\ reviewerCalls = <<>>
    /\ postCalls = 0
    /\ analystRuns = <<>>
    /\ warnings = <<>>

\* the fallback: console.warn(w), then analyzeWithClaude(diff, prDescription, "", ...)
DirectReview(w, next) ==
    /\ warnings' = Append(warnings, w)
    /\ reviewerCalls' = Append(reviewerCalls, "")
    /\ rpc' = next

\* catch (err) of stage 1: whatever was raised inside the try block
PlannerCatch == DirectReview("planner_failed", "catch_review")

\* await planInvestigation(...) returns what parsePlannerOutput returns, or
\* raises what it raises
PlanInvestigationEnds ==
    /\ rpc = "planning"
    /\ plan' = parsePlannerOutput(raw)
    /\ IF plan'.status = "raised"
       THEN PlannerCatch /\ UNCHANGED analystRuns
       ELSE IF Len(plan'.tasks) = 0
            THEN DirectReview("no_valid_tasks", "try_review") /\ UNCHANGED analystRuns
            ELSE /\ analystRuns' = Append(analystRuns, plan'.tasks)
                 /\ rpc' = "analysts"
                 /\ UNCHANGED <<warnings, reviewerCalls>>
    /\ UNCHANGED <<raw, postCalls>>
    /\ UNCHANGED otherThanRun

\* the planner's completion request raises
PlannerRequestFails ==
    /\ rpc = "planning"
    /\ plan' = [status |-> "raised", error |-> "request_failed"]
    /\ PlannerCatch
    /\ UNCHANGED <<raw, postCalls, analystRuns>>
    /\ UNCHANGED otherThanRun

\* await runParallelAnalysts(...) returns: codebaseContext = result.mergedContext,
\* then stage 3
AnalystsReturn ==
    /\ rpc = "analysts"
    /\ reviewerCalls' = Append(reviewerCalls, "merged")
    /\ rpc' = "review"
    /\ UNCHANGED <<raw, plan, postCalls, analystRuns, warnings>>
    /\ UNCHANGED otherThanRun

\* await analyzeWithClaude(...) returns a guide: postReviewGuide is called
ReviewReturns ==
    /\ rpc \in {"try_review", "catch_review", "review"}
    /\ postCalls' = postCalls + 1
    /\ rpc' = CASE rpc = "try_review" -> "try_post"
                [] rpc = "catch_review" -> "catch_post"
                [] OTHER -> "post"
    /\ UNCHANGED <<raw, plan, reviewerCalls, analystRuns, warnings>>
    /\ UNCHANGED otherThanRun

\* await analyzeWithClaude(...) raises (diff too large, truncated or
\* unparseable reply, failed request): inside the try block of stage 1 the
\* catch takes it, elsewhere run() rejects
ReviewRaises ==
    /\ rpc \in {"try_review", "catch_review", "review"}
    /\ IF rpc = "try_review"
       THEN PlannerCatch
       ELSE /\ rpc' = "failed"
            /\ UNCHANGED <<warnings, reviewerCalls>>
    /\ UNCHANGED <<raw, plan, postCalls, analystRuns>>
    /\ UNCHANGED otherThanRun

\* await postReviewGuide(...) returns: clearFileCache(); return guide
PostReturns ==
    /\ rpc \in {"try_post", "catch_post", "post"}
    /\ rpc' = "done"
    /\ UNCHANGED <<raw, plan, reviewerCalls, postCalls, analystRuns, warnings>>
    /\ UNCHANGED otherThanRun

\* await postReviewGuide(...) raises (a GitHub request failed after its
\* retries): inside the try block of stage 1 the catch takes it
PostRaises ==
    /\ rpc \in {"try_post", "catch_post", "post"}
    /\ IF rpc = "try_post"
       THEN PlannerCatch
       ELSE /\ rpc' = "failed"
            /\ UNCHANGED <<warnings, reviewerCalls>>
    /\ UNCHANGED <<raw, plan, postCalls, analystRuns>>
    /\ UNCHANGED otherThanRun

NextRun ==
    \/ PlanInvestigationEnds
    \/ PlannerRequestFails
    \/ AnalystsReturn
    \/ ReviewReturns
    \/ ReviewRaises
    \/ PostReturns
    \/ PostRaises

SpecRun == InitRun /\ [][NextRun]_vars

(***************************************************************************)
(* snapToValidLine and findClosest (pr-review-guide.ts).  A result is a     *)
(* line number or null.  The sequences of the ValidLineMap are what         *)
(* buildValidLineMap stores: ascending, without a repeated line.            *)
(***************************************************************************)
NULL == [isNull |-> TRUE, line |-> 0]
Line(n) == [isNull |-> FALSE, line |-> n]

SNAP_TOLERANCE == 20

\* the longest sequence of commentable lines of one side
MaxPoolLines == 5
\* the line numbers a sequence is made of, and the lines requested
LineInputs == {1, 2, 3, 14, 15, 36, 40, 41}
RequestInputs == (0..62) \cup {999}
FilenameInputs == {"src/a.ts", "src/b.ts"}

RECURSIVE SortedSeqOf(_)
\* [...new Set(lines)].sort((a, b) => a - b)
SortedSeqOf(S) ==
    IF S = {} THEN <<>>
    ELSE LET least == CHOOSE x \in S : \A y \in S : x <= y
         IN <<least>> \o SortedSeqOf(S \ {least})
Pools == {SortedSeqOf(S) : S \in {T \in SUBSET LineInputs : Cardinality(T) <= MaxPoolLines}}
\* the sequences of the side that is not varied
SmallPools == {<<>>, <<7>>}
\* the maps: one file, src/a.ts
ValidLineMaps ==
    {[f \in {"src/a.ts"} |-> [left |-> p, right |-> q]] :
        p \in Pools, q \in SmallPools}
    \cup {[f \in {"src/a.ts"} |-> [left |-> q, right |-> p]] :
              p \in Pools, q \in SmallPools}

Abs(n) == IF n < 0 THEN -n ELSE n

RECURSIVE BinarySearchUpwardOnly(_, _, _, _)
\* BinarySearch going to the upper half whatever the comparison says
BinarySearchUpwardOnly(sorted, target, lo, hi) ==
    IF lo > hi THEN [found |-> FALSE, lo |-> lo, hi |-> hi]
    ELSE LET mid == (lo + hi) \div 2
         IN IF sorted[mid] = target THEN [found |-> TRUE, lo |-> lo, hi |-> hi]
            ELSE BinarySearchUpwardOnly(sorted, target, mid + 1, hi)

RECURSIVE BinarySearch(_, _, _, _)
\* the while loop of findClosest (indices from 1): found, or lo = hi + 1 at
\* the insertion point
BinarySearch(sorted, target, lo, hi) ==
    IF lo > hi THEN [found |-> FALSE, lo |-> lo, hi |-> hi]
    ELSE LET mid == (lo + hi) \div 2
         IN IF sorted[mid] = target THEN [found |-> TRUE, lo |-> lo, hi |-> hi]
            ELSE IF sorted[mid] < target
                 THEN BinarySearch(sorted, target, mid + 1, hi)
                 ELSE BinarySearch(sorted, target, lo, mid - 1)

\* Candidates looking at the lower neighbour only
CandidatesLowerOnly(hi, lo) == <<hi>>
\* Candidates looking at the upper neighbour first
CandidatesUpperFirst(hi, lo) == <<lo, hi>>
\* for (const idx of [hi, lo])
Candidates(hi, lo) == <<hi, lo>>

\* WithinTolerance accepting every distance
WithinToleranceAlways(dist, maxDist) == TRUE
\* dist <= maxDist
WithinTolerance(dist, maxDist) == dist <= maxDist

\* one round of the for loop: best and bestDist after looking at idx
\* (bestDist is Infinity while best is null)
TryIndex(best, sorted, target, maxDist, idx) ==
    IF idx >= 1 /\ idx <= Len(sorted)
    THEN LET dist == Abs(sorted[idx] - target)
         IN IF (best.value.isNull \/ dist < best.dist) /\ WithinTolerance(dist, maxDist)
            THEN [value |-> Line(sorted[idx]), dist |-> dist]
            ELSE best
    ELSE best

RECURSIVE TryAll(_, _, _, _, _)
TryAll(best, sorted, target, maxDist, idxs) ==
    IF idxs = <<>> THEN best
    ELSE TryAll(TryIndex(best, sorted, target, maxDist, Head(idxs)),
                sorted, target, maxDist, Tail(idxs))

findClosest(sorted, target, maxDist) ==
    IF Len(sorted) = 0 THEN NULL
    ELSE LET found == BinarySearch(sorted, target, 1, Len(sorted))
         IN IF found.found THEN Line(target)
            ELSE TryAll([value |-> NULL, dist |-> 0], sorted, target, maxDist,
                        Candidates(found.hi, found.lo)).value

\* PoolOf taking the sequence of the other side
PoolOfOtherSide(fileLines, s) == IF s = "RIGHT" THEN fileLines.left ELSE fileLines.right
\* side === "RIGHT" ? fileLines.right : fileLines.left
PoolOf(fileLines, s) == IF s = "RIGHT" THEN fileLines.right ELSE fileLines.left

snapToValidLine(f, line, s, map) ==
    IF f \notin DOMAIN map THEN NULL
    ELSE findClosest(PoolOf(map[f], s), line, SNAP_TOLERANCE)

\* The snapToValidLine of the earlier, single-pass pipeline (part_002): the
\* pool of the side is a Set; an exact member is returned, else the whole
\* pool, sorted, is scanned for the nearest line within 20.
RECURSIVE LinearScan(_, _, _, _)
LinearScan(best, sorted, target, i) ==
    IF i > Len(sorted) THEN best
    ELSE LET dist == Abs(sorted[i] - target)
         IN LinearScan(IF (best.value.isNull \/ dist < best.dist) /\ dist <= 20
                       THEN [value |-> Line(sorted[i]), dist |-> dist]
                       ELSE best,
                       sorted, target, i + 1)

snapToValidLineLinear(f, line, s, map) ==
    IF f \notin DOMAIN map THEN NULL
    ELSE LET pool == IF s = "RIGHT" THEN map[f].right ELSE map[f].left
             members == {pool[i] : i \in DOMAIN pool}
         IN  IF line \in members THEN Line(line)
             ELSE LinearScan([value |-> NULL, dist |-> 0], SortedSeqOf(members),
                             line, 1).value

InitSnap ==
    /\ IdleAgentVars
    /\ IdleToolVars
    /\ IdleCommentVars
    /\ IdleOrchVars
    /\ IdleRunVars
    /\ IdleDiffVars
    /\ validLines \in ValidLineMaps
    /\ filename \in FilenameInputs
    /\ requestedLine \in RequestInputs
    /\ side \in {"LEFT", "RIGHT"}
    /\ snapped = [called |-> FALSE]

\* the call snapToValidLine(filename, requestedLine, side, validLines)
SnapToValidLine ==
    /\ ~snapped.called
    /\ snapped' = [called |-> TRUE,
                   value |-> snapToValidLine(filename, requestedLine, side, validLines)]
    /\ UNCHANGED <<validLines, filename, requestedLine, side>>
    /\ UNCHANGED otherThanSnap

NextSnap == SnapToValidLine

SpecSnap == InitSnap /\ [][NextSnap]_vars

(***************************************************************************)
(* diff-tools.ts: parseDiff, buildDiffOverview, the get_diff_for_file       *)
(* executor.                                                               *)
(*                                                                         *)
(* A text is a non-empty sequence of lines (the text between two "\n"),     *)
(* the empty text being one empty line; a line is a sequence of tokens,     *)
(* cut so that every prefix the code tests for ("diff --git ", "@@", "+",   *)
(* "+++", "new file mode", ...) ends at a token boundary.  A path is the    *)
(* sequence of its components (the text between two "/").                   *)
(***************************************************************************)
StartsWith(line, prefix) ==
    /\ Len(line) >= Len(prefix)
    /\ SubSeq(line, 1, Len(prefix)) = prefix

At(line, i) == IF i \in DOMAIN line THEN line[i] ELSE ""

\* lines.join("\n") and text.split("\n")
JoinLines(ls) == IF ls = <<>> THEN << <<>> >> ELSE ls

SplitLines(text) == text

\* text.trim() === ""
IsBlankLine(line) == \A i \in DOMAIN line : line[i] = " "

IsBlankText(text) == \A i \in DOMAIN text : IsBlankLine(text[i])

\* parseInt(s, 10) on the digit strings the hunk headers below carry
DigitValue ==
    ("0" :> 0) @@ ("1" :> 1) @@ ("2" :> 2) @@ ("3" :> 3) @@ ("5" :> 5) @@
    ("10" :> 10) @@ ("20" :> 20) @@ ("40" :> 40) @@ ("41" :> 41)

IsDigits(s) == s \in DOMAIN DigitValue

parseInt(s) == DigitValue[s]

\* ---- the raw diffs submitted ----
HeaderLine(oldPath, newPath) ==
    <<"diff --git ", "a/">> \o oldPath \o <<" b/">> \o newPath

Added == <<"+", "x">>

Removed == <<"-", "x">>

Context == <<" ", "x">>

RECURSIVE Repeat(_, _)
Repeat(line, n) == IF n = 0 THEN <<>> ELSE <<line>> \o Repeat(line, n - 1)

\* src/a.ts: one hunk, +3 -1
SectionA ==
    << HeaderLine(<<"src", "a.ts">>, <<"src", "a.ts">>),
       <<"index ", "1..2">>,
       <<"-", "-", "-", " a/src/a.ts">>,
       <<"+", "+", "+", " b/src/a.ts">>,
       <<"@@", " -", "10", ",", "3", " +", "10", ",", "5", " @@", " ", "function f()">>,
       Context, Removed, Added, Added, Added, Context >>

\* src/b.ts: a new file of 20 lines
SectionB ==
    << HeaderLine(<<"src", "b.ts">>, <<"src", "b.ts">>),
       <<"new file mode", " 100644">>,
       <<"-", "-", "-", " /dev/null">>,
       <<"+", "+", "+", " b/src/b.ts">>,
       <<"@@", " -", "0", ",", "0", " +", "1", ",", "20", " @@">> >>
    \o Repeat(Added, 20)

\* lib/c.ts: two hunks; the added line "++counter;" and the removed line
\* "-- comment" read "+++counter;" and "--- comment" in the patch
SectionC ==
    << HeaderLine(<<"lib", "c.ts">>, <<"lib", "c.ts">>),
       <<"-", "-", "-", " a/lib/c.ts">>,
       <<"+", "+", "+", " b/lib/c.ts">>,
       <<"@@", " -", "1", ",", "2", " +", "1", ",", "2", " @@", " ", "class C">>,
       <<"-", "-", "-", " comment">>,
       <<"+", "+", "+", "counter;">>,
       Context,
       <<"@@", " -", "40", " +", "41", " @@">>,
       Removed, Added,
       <<"\\ No newline", " at end of file">> >>

\* docs/old.md renamed to docs/new.md without a change of content
SectionR ==
    << HeaderLine(<<"docs", "old.md">>, <<"docs", "new.md">>),
       <<"similarity index 100%">>,
       <<"rename from ", "docs/old.md">>,
       <<"rename to ", "docs/new.md">> >>

\* README deleted (a file of the top directory)
SectionD ==
    << HeaderLine(<<"README">>, <<"README">>),
       <<"deleted file mode", " 100644">>,
       <<"-", "-", "-", " a/README">>,
       <<"+", "+", "+", " /dev/null">>,
       <<"@@", " -", "1", ",", "2", " +", "0", ",", "0", " @@">>,
       Removed, Removed >>

\* a section whose header names no " b/" path
SectionU ==
    << <<"diff --git ", "a/", "odd">>,
       <<"@@", " -", "1", " +", "1", ",", "2", " @@">>,
       Context, Added >>

\* a combined-diff hunk header, which the range pattern does not match
SectionM ==
    << HeaderLine(<<"src", "m.ts">>, <<"src", "m.ts">>),
       <<"@@", "@ -1 -1 +1 @@@">>,
       Added, <<>>, Removed >>

FileSections == {SectionA, SectionB, SectionC, SectionR, SectionD, SectionU, SectionM}

\* nothing, or the first line of a mailed patch
Preambles == {<<>>, << <<"From ", "0001">> >>}

MaxSections == 3

RECURSIVE Flatten(_)
Flatten(ss) == IF ss = <<>> THEN <<>> ELSE Head(ss) \o Flatten(Tail(ss))

\* the text of a diff: a preamble, then each file once, then the final "\n"
RawDiffOf(pre, ss) == pre \o Flatten(ss) \o << <<>> >>

SectionOrders ==
    UNION {{ss \in [1..n -> FileSections] : \A i, j \in 1..n : i # j => ss[i] # ss[j]}
           : n \in 0..MaxSections}

\* ---- parseDiff ----
\* rawDiff.split(/^diff --git /m): the pieces before, between and after the
\* lines that start with "diff --git "; a piece that another one follows
\* ends with "\n", so its last line is empty
RECURSIVE SplitAtDiffGit(_, _, _, _)
SplitAtDiffGit(text, i, acc, cur) ==
    IF i > Len(text)
    THEN Append(acc, JoinLines(cur))
    ELSE IF StartsWith(text[i], <<"diff --git ">>)
         THEN SplitAtDiffGit(text, i + 1, Append(acc, Append(cur, <<>>)),
                             <<Tail(text[i])>>)
         ELSE SplitAtDiffGit(text, i + 1, acc, Append(cur, text[i]))

\* .filter(Boolean): the empty pieces go
IsEmptyText(text) == text = << <<>> >>

fileSectionsOf(text) ==
    SelectSeq(SplitAtDiffGit(text, 1, <<>>, <<>>), LAMBDA s : ~IsEmptyText(s))

IndexOfToken(line, tok) ==
    IF \E i \in DOMAIN line : line[i] = tok
    THEN CHOOSE i \in DOMAIN line : line[i] = tok /\ \A j \in 1..(i - 1) : line[j] # tok
    ELSE 0

\* the two paths of "a/<old> b/<new>"; an empty path where none is read
HeaderPaths(headerLine) ==
    LET bIdx == IndexOfToken(headerLine, " b/") IN
    IF bIdx = 0
    THEN [oldPath |-> <<>>, newPath |-> <<>>]
    ELSE [oldPath |-> SubSeq(headerLine, 2, bIdx - 1),
          newPath |-> SubSeq(headerLine, bIdx + 1, Len(headerLine))]

StatusOf(lines, isRenamed) ==
    IF \E i \in DOMAIN lines : StartsWith(lines[i], <<"new file mode">>) THEN "added"
    ELSE IF \E i \in DOMAIN lines : StartsWith(lines[i], <<"deleted file mode">>) THEN "deleted"
    ELSE IF isRenamed THEN "renamed"
    ELSE "modified"

IsAddition(line) == StartsWith(line, <<"+">>) /\ ~StartsWith(line, <<"+", "+", "+">>)

IsDeletion(line) ==
    /\ ~IsAddition(line)
    /\ StartsWith(line, <<"-">>) /\ ~StartsWith(line, <<"-", "-", "-">>)

\* the loop over the lines of a section (st: hunks, additions, deletions,
\* patchLines, inPatch)
ScanLine(st, line) ==
    IF StartsWith(line, <<"@@">>)
    THEN [st EXCEPT !.inPatch = TRUE,
                    !.hunks = Append(@, line),
                    !.patchLines = Append(@, line)]
    ELSE IF ~st.inPatch \/ StartsWith(line, <<"\\ No newline">>)
    THEN st
    ELSE [st EXCEPT !.patchLines = Append(@, line),
                    !.additions = IF IsAddition(line) THEN @ + 1 ELSE @,
                    !.deletions = IF IsDeletion(line) THEN @ + 1 ELSE @]

RECURSIVE ScanLines(_, _, _)
ScanLines(st, lines, i) ==
    IF i > Len(lines) THEN st ELSE ScanLines(ScanLine(st, lines[i]), lines, i + 1)

\* the entry of one section, or <<>> when the section is skipped
EntriesOfSection(section) ==
    LET lines == SplitLines(section)
        paths == HeaderPaths(lines[1])
        isRenamed == paths.oldPath # paths.newPath
        st == ScanLines([hunks |-> <<>>, additions |-> 0, deletions |-> 0,
                         patchLines |-> <<>>, inPatch |-> FALSE], lines, 1)
        entry == [filename |-> paths.newPath,
                  status |-> StatusOf(lines, isRenamed),
                  additions |-> st.additions,
                  deletions |-> st.deletions,
                  hunks |-> st.hunks,
                  patch |-> JoinLines(st.patchLines)]
    IN  IF paths.oldPath = <<>> \/ paths.newPath = <<>>
        THEN <<>>
        ELSE IF isRenamed
             THEN << entry @@ [old_filename |-> paths.oldPath] >>
             ELSE << entry >>

RECURSIVE parseSections(_)
parseSections(sections) ==
    IF sections = <<>> THEN <<>>
    ELSE EntriesOfSection(Head(sections)) \o parseSections(Tail(sections))

parseDiff(text) == parseSections(fileSectionsOf(text))

\* ---- buildDiffOverview ----
\* The overview is the sequence of the lines pushed, each one a record of the
\* values interpolated into its template.
DirOf(path) == IF Len(path) > 1 THEN SubSeq(path, 1, Len(path) - 1) ELSE <<".">>

BaseName(path) == path[Len(path)]

\* byDir: a Map keeps its keys in the order of their first insertion
RECURSIVE GroupByDir(_, _)
GroupByDir(es, byDir) ==
    IF es = <<>> THEN byDir
    ELSE LET e == Head(es)
             dir == DirOf(e.filename)
         IN  IF \E i \in DOMAIN byDir : byDir[i].dir = dir
             THEN GroupByDir(Tail(es),
                     [i \in DOMAIN byDir |->
                         IF byDir[i].dir = dir
                         THEN [byDir[i] EXCEPT !.files = Append(@, e)]
                         ELSE byDir[i]])
             ELSE GroupByDir(Tail(es), Append(byDir, [dir |-> dir, files |-> <<e>>]))

toUpperCase(status) ==
    CASE status = "added" -> "ADDED"
      [] status = "deleted" -> "DELETED"
      [] status = "renamed" -> "RENAMED"
      [] OTHER -> "MODIFIED"

\* /@@ -(\d+)(?:,(\d+))? \+(\d+)(?:,(\d+))? @@/ : the groups 3 and 4, the
\* latter "" when the count is left out
RangeMatch(hunk) ==
    LET plus == IF At(hunk, 4) = "," THEN 6 ELSE 4
        close == IF At(hunk, plus + 2) = "," THEN plus + 4 ELSE plus + 2
    IN  [matched |-> /\ At(hunk, 1) = "@@"
                     /\ At(hunk, 2) = " -"
                     /\ IsDigits(At(hunk, 3))
                     /\ (At(hunk, 4) = "," => IsDigits(At(hunk, 5)))
                     /\ At(hunk, plus) = " +"
                     /\ IsDigits(At(hunk, plus + 1))
                     /\ (At(hunk, plus + 2) = "," => IsDigits(At(hunk, plus + 3)))
                     /\ At(hunk, close) = " @@",
         start |-> At(hunk, plus + 1),
         count |-> IF At(hunk, plus + 2) = "," THEN At(hunk, plus + 3) ELSE ""]

\* /@@ .+? @@\s*(.*)/ : group 1, trimmed
HunkContext(hunk) ==
    LET close == IndexOfToken(hunk, " @@") IN
    IF close = 0 THEN <<>> ELSE Trim(SubSeq(hunk, close + 1, Len(hunk)))

Max0(n) == IF n > 0 THEN n ELSE 0

RangeAlwaysSpan(newStart, newCount) ==
    [single |-> FALSE, start |-> newStart, end |-> newStart + Max0(newCount - 1)]

\* `L${newStart}` or `L${newStart}-${endLine}`
RangeOf(newStart, newCount) ==
    LET endLine == newStart + Max0(newCount - 1) IN
    IF newCount <= 1
    THEN [single |-> TRUE, start |-> newStart]
    ELSE [single |-> FALSE, start |-> newStart, end |-> endLine]

HunkLines(hunk) ==
    LET rangeMatch == RangeMatch(hunk) IN
    IF rangeMatch.matched
    THEN LET newStart == parseInt(rangeMatch.start)
             newCount == parseInt(IF rangeMatch.count # "" THEN rangeMatch.count ELSE "1")
         IN  << [kind |-> "hunk",
                 range |-> RangeOf(newStart, newCount),
                 desc |-> HunkContext(hunk)] >>
    ELSE <<>>

RECURSIVE HunksLines(_)
HunksLines(hunks) ==
    IF hunks = <<>> THEN <<>> ELSE HunkLines(Head(hunks)) \o HunksLines(Tail(hunks))

FileLine(f) ==
    LET isBinary == f.additions = 0 /\ f.deletions = 0 /\ Len(f.hunks) = 0 IN
    [kind |-> "file",
     name |-> BaseName(f.filename),
     stat |-> IF isBinary THEN [binary |-> TRUE]
              ELSE [binary |-> FALSE, additions |-> f.additions, deletions |-> f.deletions],
     statusTag |-> IF f.status # "modified" THEN toUpperCase(f.status) ELSE "",
     rename |-> IF "old_filename" \in DOMAIN f THEN f.old_filename ELSE <<>>]

RECURSIVE FilesLines(_)
FilesLines(files) ==
    IF files = <<>> THEN <<>>
    ELSE <<FileLine(Head(files))>> \o HunksLines(Head(files).hunks) \o FilesLines(Tail(files))

DirLines(dir, files) ==
    <<[kind |-> "dir", dir |-> dir]>> \o FilesLines(files) \o <<[kind |-> "blank"]>>

RECURSIVE GroupsLines(_)
GroupsLines(byDir) ==
    IF byDir = <<>> THEN <<>>
    ELSE DirLines(Head(byDir).dir, Head(byDir).files) \o GroupsLines(Tail(byDir))

RECURSIVE SumOf(_, _)
SumOf(es, field) == IF es = <<>> THEN 0 ELSE Head(es)[field] + SumOf(Tail(es), field)

buildDiffOverview(es) ==
    << [kind |-> "title", files |-> Len(es),
        additions |-> SumOf(es, "additions"), deletions |-> SumOf(es, "deletions")],
       [kind |-> "blank"] >>
    \o GroupsLines(GroupByDir(es, <<>>))
    \o << [kind |-> "footer"] >>

\* ---- createDiffToolExecutor ----
\* Map.set: a new key goes to the end, a known key keeps its place
MapSet(map, key, value) ==
    IF \E i \in DOMAIN map : map[i].key = key
    THEN [i \in DOMAIN map |-> IF map[i].key = key THEN [key |-> key, value |-> value] ELSE map[i]]
    ELSE Append(map, [key |-> key, value |-> value])

RECURSIVE IndexByFilename(_, _)
IndexByFilename(es, map) ==
    IF es = <<>> THEN map
    ELSE LET e == Head(es)
             withName == MapSet(map, e.filename, e)
         IN  IndexByFilename(Tail(es),
                 IF "old_filename" \in DOMAIN e
                 THEN MapSet(withName, e.old_filename, e)
                 ELSE withName)

\* key.endsWith(`/${filename}`) || key.endsWith(filename), on whole components
EndsWith(key, name) ==
    /\ Len(key) >= Len(name)
    /\ SubSeq(key, Len(key) - Len(name) + 1, Len(key)) = name

Keys(map) == [i \in DOMAIN map |-> map[i].key]

FirstN(s, n) == SubSeq(s, 1, IF Len(s) < n THEN Len(s) ELSE n)

AVAILABLE_FILES_SAMPLE == 20

splitIntoHunksDropLast(patch) ==
    IF IsBlankText(patch) THEN <<>>
    ELSE LET starts == SelectSeq([i \in DOMAIN patch |-> i],
                                 LAMBDA i : i > 1 /\ StartsWith(patch[i], <<"@@">>))
         IN  [k \in DOMAIN starts |->
                 SubSeq(patch, IF k = 1 THEN 1 ELSE starts[k - 1], starts[k] - 1)]

\* the loop of splitIntoHunks (acc: hunks, cur: current)
RECURSIVE SplitLoop(_, _, _, _)
SplitLoop(lines, i, acc, cur) ==
    IF i > Len(lines)
    THEN IF cur # <<>> /\ \E j \in DOMAIN cur : ~IsBlankLine(cur[j])
         THEN Append(acc, JoinLines(cur))
         ELSE acc
    ELSE IF StartsWith(lines[i], <<"@@">>) /\ cur # <<>>
         THEN SplitLoop(lines, i + 1, Append(acc, JoinLines(cur)), <<lines[i]>>)
         ELSE SplitLoop(lines, i + 1, acc, Append(cur, lines[i]))

splitIntoHunks(patch) ==
    IF IsBlankText(patch) THEN <<>> ELSE SplitLoop(SplitLines(patch), 1, <<>>, <<>>)

HasHunkIndex(in) == "hunk_index" \in DOMAIN in

\* the object handed to JSON.stringify
getDiffForFile(es, in) ==
    LET byFilename == IndexByFilename(es, <<>>)
        requested == in.filename
        keys == Keys(byFilename)
    IN
    IF requested = <<>>
    THEN [error |-> [text |-> "Missing required parameter: filename"]]
    ELSE IF ~\E i \in DOMAIN keys : keys[i] = requested
    THEN IF \E i \in DOMAIN keys : EndsWith(keys[i], requested)
         THEN LET fuzzy == keys[CHOOSE i \in DOMAIN keys :
                                   /\ EndsWith(keys[i], requested)
                                   /\ \A j \in 1..(i - 1) : ~EndsWith(keys[j], requested)]
              IN  [error |-> [text |-> "not found in diff. Did you mean", filename |-> requested,
                              suggestion |-> fuzzy],
                   suggestion |-> fuzzy]
         ELSE [error |-> [text |-> "not found in the PR diff.", filename |-> requested],
               available_files |-> FirstN(keys, AVAILABLE_FILES_SAMPLE)]
    ELSE LET entry == byFilename[CHOOSE i \in DOMAIN keys : keys[i] = requested].value IN
         IF HasHunkIndex(in)
         THEN LET hunkSections == splitIntoHunks(entry.patch)
                  hunkIndex == in.hunk_index
              IN  IF hunkIndex < 0 \/ hunkIndex >= Len(hunkSections)
                  THEN [error |-> [text |-> "Hunk index out of range", index |-> hunkIndex,
                                   hunks |-> Len(hunkSections),
                                   first |-> 0, last |-> Len(hunkSections) - 1],
                        total_hunks |-> Len(hunkSections),
                        hunk_headers |-> entry.hunks]
                  ELSE [filename |-> entry.filename,
                        status |-> entry.status,
                        hunk_index |-> hunkIndex,
                        total_hunks |-> Len(hunkSections),
                        patch |-> hunkSections[hunkIndex + 1]]
         ELSE [filename |-> entry.filename,
               status |-> entry.status,
               additions |-> entry.additions,
               deletions |-> entry.deletions,
               total_hunks |-> Len(entry.hunks),
               patch |-> entry.patch]

\* ---- the calls ----
HunkIndexInputs == {-1, 0, 1, 2}

UnknownName == <<"nope.ts">>

FilenameInputsOf(es) ==
    LET map == IndexByFilename(es, <<>>)
        keys == {map[i].key : i \in DOMAIN map}
    IN
    keys \cup {<<BaseName(k)>> : k \in keys} \cup {UnknownName, <<>>}

ToolInputsOf(es) ==
    LET names == FilenameInputsOf(es) IN
    {[filename |-> f] : f \in names}
        \cup {[filename |-> f, hunk_index |-> i] : f \in names, i \in HunkIndexInputs}

NoOutput == [kind |-> "none"]

InitDiff ==
    /\ \E pre \in Preambles, ss \in SectionOrders : rawDiff = RawDiffOf(pre, ss)
    /\ entries = <<>>
    /\ overview = <<>>
    /\ input = [filename |-> <<>>]
    /\ toolOutput = NoOutput
    /\ dpc = "start"
    /\ IdleToolVars
    /\ IdleCommentVars
    /\ IdleAgentVars
    /\ IdleOrchVars
    /\ IdleRunVars
    /\ IdleSnapVars

\* pr-review-guide.ts: const diffEntries = parseDiff(diff)
ParseDiff ==
    /\ dpc = "start"
    /\ entries' = parseDiff(rawDiff)
    /\ dpc' = "parsed"
    /\ UNCHANGED <<rawDiff, overview, input, toolOutput>>
    /\ UNCHANGED otherThanDiff

\* pr-review-guide.ts: const diffOverview = buildDiffOverview(diffEntries)
BuildDiffOverview ==
    /\ dpc = "parsed"
    /\ overview' = buildDiffOverview(entries)
    /\ dpc' = "ready"
    /\ UNCHANGED <<rawDiff, entries, input, toolOutput>>
    /\ UNCHANGED otherThanDiff

\* An analyst calls get_diff_for_file.  The executor keeps nothing from one
\* call to the next, so one call a behaviour shows every result.
GetDiffForFile ==
    /\ dpc = "ready"
    /\ \E in \in ToolInputsOf(entries) :
          /\ input' = in
          /\ toolOutput' = getDiffForFile(entries, in)
    /\ dpc' = "answered"
    /\ UNCHANGED <<rawDiff, entries, overview>>
    /\ UNCHANGED otherThanDiff

NextDiff == ParseDiff \/ BuildDiffOverview \/ GetDiffForFile

SpecDiff == InitDiff /\ [][NextDiff]_vars

(***************************************************************************)
(* The single-agent loop: properties.                                       *)
(***************************************************************************)
ToolUsesOf(m) == SelectBlocks(m.content, {"tool_use"})
ToolResultsOf(m) == SelectBlocks(m.content, {"tool_result"})
LargestToolResult == CHOOSE n \in ToolResultLengths : \A m \in ToolResultLengths : m <= n
\* one tool call's worth of result: a truncated result with its note
OneToolCallWorth == truncatedLength(LargestToolResult)
\* nothing is dispatched, requested or appended by the step
NoToolActivity ==
    /\ executed' = executed
    /\ toolCallCount' = toolCallCount
    /\ toolRequests' = toolRequests
\* the loop has returned or raised: no further step
AgentStopped == pc \in {"done", "raised"}

\* C1: for a task with max_tool_calls = N (N >= 1), the toolCalls of the
\* returned result never exceeds N.
C1_ToolCallsWithinBudget ==
    (pc = "done" /\ max_tool_calls >= 1) => result.toolCalls <= max_tool_calls

\* C2: every returned SingleAnalystResult has a non-empty summary.
C2_SummaryNonEmpty == pc = "done" => result.summary # <<>>

\* the step that ends a round's tool calls with a budget reached; a task
\* without the field (0) has no max_tool_calls to reach
C3_BudgetReached ==
    /\ pc = "await_tool"
    /\ pc' # "await_tool"
    /\ \/ totalToolResultChars' > MAX_TOTAL_TOOL_RESULT_CHARS
       \/ max_tool_calls # 0 /\ iterations' >= max_tool_calls
\* that step appends one user message (the round's tool results, one per
\* tool_use of the assistant message before it, then the stop instruction)
\* and issues one request with tool use disabled
C3_ForcedNow ==
    /\ pc' = "await_final"
    /\ Len(messages') = Len(messages) + 1
    /\ SubSeq(messages', 1, Len(messages)) = messages
    /\ LET a == messages'[Len(messages)]
           u == messages'[Len(messages')]
       IN /\ a.role = "assistant"
          /\ u.role = "user"
          /\ Len(ToolResultsOf(u)) = Len(ToolUsesOf(a))
          /\ \A j \in 1..Len(ToolUsesOf(a)) : ToolResultsOf(u)[j].id = ToolUsesOf(a)[j].id
          /\ u.content = ToolResultsOf(u) \o
                <<TextBlock(StopText(totalToolResultChars' > MAX_TOTAL_TOOL_RESULT_CHARS))>>
    /\ noToolRequests' = noToolRequests + 1
    /\ NoToolActivity
\* C3: after a round with tool invocations, if the character total exceeds
\* the ceiling or the round counter has reached max_tool_calls, the loop
\* appends the round's tool results plus a stop instruction and issues exactly
\* one more request, with tool use disabled; no tool is executed afterwards,
\* and the stop reason is context_budget (ceiling exceeded) or max_iterations.
C3_BudgetStop ==
    /\ [][C3_BudgetReached => C3_ForcedNow]_vars
    /\ [][pc = "await_final" =>
            /\ pc' \in {"done", "raised"}
            /\ NoToolActivity
            /\ noToolRequests' = noToolRequests
            /\ messages' = messages
            /\ pc' = "done" =>
                 result'.stopReason =
                    IF totalToolResultChars > MAX_TOTAL_TOOL_RESULT_CHARS
                    THEN "context_budget" ELSE "max_iterations"]_vars
    /\ [][~AgentStopped]_vars
    /\ [](noToolRequests <= 1)
C3_Witness ==
    /\ pc = "done"
    /\ result.stopReason = "context_budget"
    /\ iterations < max_tool_calls
    /\ noToolRequests = 1

\* the step that receives a reply cut short by the length limit
C4_TruncatedReply ==
    /\ pc = "await_response"
    /\ pc' # "raised"
    /\ response'.stop_reason = "max_tokens"
\* C4: when a round's reply is cut short (stop_reason max_tokens), none of
\* its tool invocations is executed or appended; only its non-tool content
\* (or a placeholder when there is none) is appended, exactly one further
\* tool-disabled request is issued, and the stop reason is max_tokens.
C4_TruncatedRound ==
    /\ [][C4_TruncatedReply =>
            /\ NoToolActivity
            /\ pc' = "await_forced"
            /\ noToolRequests' = noToolRequests + 1
            /\ Len(messages') = Len(messages) + 2
            /\ SubSeq(messages', 1, Len(messages)) = messages
            /\ LET a == messages'[Len(messages) + 1]
                   nonTool == SelectBlocks(response'.content, BlockTypes \ {"tool_use"})
               IN /\ a.role = "assistant"
                  /\ ToolUsesOf(a) = <<>>
                  /\ a.content = IF nonTool # <<>> THEN nonTool
                                 ELSE <<TextBlock(TRUNCATED_PLACEHOLDER)>>
            /\ messages'[Len(messages')] = Message("user", <<TextBlock(CUT_OFF_TEXT)>>)]_vars
    /\ [][pc = "await_forced" =>
            /\ pc' \in {"done", "raised"}
            /\ NoToolActivity
            /\ noToolRequests' = noToolRequests
            /\ messages' = messages
            /\ pc' = "done" => result'.stopReason = "max_tokens"]_vars
    /\ [][~AgentStopped]_vars
    /\ [](noToolRequests <= 1)
C4_Witness ==
    /\ pc = "done"
    /\ result.stopReason = "max_tokens"
    /\ ToolUsesOf(messages[Len(messages) - 1]) = <<>>
    /\ nextId > Cardinality(executed)
    /\ executed # {}

\* C5: the running total of tool-result characters never exceeds the ceiling
\* by more than one tool call's worth of result.
C5_CharOverrunBounded ==
    totalToolResultChars <= MAX_TOTAL_TOOL_RESULT_CHARS + OneToolCallWorth

\* the step that receives a reply that is not cut short and has no tool_use
C6_CompletingReply ==
    /\ pc = "await_response"
    /\ pc' # "raised"
    /\ response'.stop_reason # "max_tokens"
    /\ ~hasToolUse(response')
\* C6: a non-truncated round with zero tool invocations ends the loop at
\* once: no further request or tool call, the summary is that round's text,
\* stopReason is complete and earlyStop is false; every other stop reason is
\* returned with earlyStop true.
C6_CompleteEndsLoop ==
    /\ [][C6_CompletingReply =>
            /\ pc' = "done"
            /\ NoToolActivity
            /\ noToolRequests' = noToolRequests
            /\ messages' = messages
            /\ result'.summary = extractText(response')
            /\ result'.stopReason = "complete"
            /\ result'.earlyStop = FALSE]_vars
    /\ [][~AgentStopped]_vars
    /\ [](pc = "done" => (result.earlyStop <=> result.stopReason # "complete"))
C6_Witness ==
    /\ pc = "done"
    /\ result.stopReason = "complete"
    /\ result.summary = <<"a">>
    /\ result.toolCalls > 0

(***************************************************************************)
(* The orchestrator: properties.                                            *)
(***************************************************************************)
Range(f) == {f[x] : x \in DOMAIN f}
Returned == opc = "returned"
AnalystIds == {output.analysts[j].taskId : j \in DOMAIN output.analysts}
FailedIds == Range(output.failedTasks)
MergedResultIds ==
    {output.mergedContext[j].taskId :
        j \in {i \in DOMAIN output.mergedContext : output.mergedContext[i].kind = "result"}}
Failed(k) == wrapper[k] \in {"rejected", "timed_out"}
\* the batch (0, 1, 2) of the active task at index k
BatchOf(k) == (k - 1) \div BATCH_SIZE
\* ids of the tasks the orchestrator runs: the first MAX_PARALLEL_ANALYSTS submitted
ExecutedIds ==
    {tasks[i].id : i \in {j \in DOMAIN tasks : j <= MAX_PARALLEL_ANALYSTS}}

\* C7: each executed task ends in exactly one place: one result for it in
\* analysts, or its id (once) in failedTasks; its id is in failedTasks only if
\* its own agent raised or timed out, and in analysts only if its agent
\* returned in time.
C7_EachTaskSettledOnce ==
    Returned =>
        \A k \in DOMAIN activeTasks :
            LET id == activeTasks[k].id
                nA == Cardinality({j \in DOMAIN output.analysts :
                                      output.analysts[j].taskId = id})
                nF == Cardinality({j \in DOMAIN output.failedTasks :
                                      output.failedTasks[j] = id})
            IN /\ nA + nF = 1
               /\ nF = 1 => Failed(k)
               /\ nA = 1 => wrapper[k] = "fulfilled"
C7_Witness ==
    /\ Returned
    /\ Len(activeTasks) = MAX_PARALLEL_ANALYSTS
    /\ activeTasks # Slice(tasks, MAX_PARALLEL_ANALYSTS)
    /\ wrapper[1] = "rejected" /\ wrapper[2] = "fulfilled"
    /\ wrapper[3] = "fulfilled" /\ wrapper[4] = "timed_out"

\* C8 as claimed: when every agent fails or times out, the returned result
\* has analysts = [] and failedTasks covers every submitted task id.
C8_AllFailedCoversSubmitted ==
    (Returned /\ \A k \in DOMAIN wrapper : Failed(k)) =>
        /\ output.analysts = <<>>
        /\ \A i \in DOMAIN tasks : tasks[i].id \in FailedIds
\* C8 as amended: when every agent fails or times out, the returned result
\* has analysts = [] and failedTasks holds exactly the ids of the executed
\* tasks, the first MAX_PARALLEL_ANALYSTS submitted.
C8_AllFailedCoversExecuted ==
    (Returned /\ \A k \in DOMAIN wrapper : Failed(k)) =>
        /\ output.analysts = <<>>
        /\ FailedIds = ExecutedIds
        /\ Len(output.failedTasks) = Cardinality(ExecutedIds)
C8_Witness ==
    /\ Returned
    /\ Len(tasks) > MAX_PARALLEL_ANALYSTS
    /\ \A k \in DOMAIN wrapper : Failed(k)
    /\ \E k \in DOMAIN wrapper : wrapper[k] = "timed_out"
    /\ \E k \in DOMAIN wrapper : wrapper[k] = "rejected"

\* C9: an agent that has not finished when its timeout expires is recorded in
\* failedTasks; no result of it, even one produced later, appears in analysts
\* or mergedContext; its siblings and the later batches run and are collected
\* as usual; the orchestrator still returns its result.
C9_TimeoutIsFailure ==
    /\ [](Returned =>
            \A k \in DOMAIN wrapper :
                /\ wrapper[k] # "idle"
                /\ wrapper[k] = "timed_out" =>
                     /\ activeTasks[k].id \in FailedIds
                     /\ activeTasks[k].id \notin AnalystIds
                     /\ activeTasks[k].id \notin MergedResultIds
                /\ wrapper[k] = "fulfilled" =>
                     /\ activeTasks[k].id \in AnalystIds
                     /\ activeTasks[k].id \in MergedResultIds)
    /\ [][\A k \in DOMAIN wrapper :
            wrapper[k] = "timed_out" => wrapper'[k] = "timed_out"]_vars
    /\ [][Returned => (output' = output /\ opc' = opc /\ results' = results)]_vars
C9_Witness ==
    /\ Returned
    /\ Len(activeTasks) = MAX_PARALLEL_ANALYSTS
    /\ wrapper[1] = "timed_out" /\ agent[1] = "finished"
    /\ wrapper[2] = "fulfilled"
    /\ wrapper[3] = "timed_out" /\ agent[3] = "running"
    /\ wrapper[5] = "fulfilled"

\* C10: no agent of a batch is started before every agent of the batches
\* before it has settled, and the agents start in batch order.
C10_BatchesInOrder ==
    /\ \A j \in DOMAIN wrapper : \A k \in DOMAIN wrapper :
          (wrapper[j] # "idle" /\ BatchOf(k) < BatchOf(j)) =>
              wrapper[k] \notin {"idle", "pending"}
    /\ \A a \in DOMAIN startOrder : \A b \in DOMAIN startOrder :
          a < b => /\ BatchOf(startOrder[a]) <= BatchOf(startOrder[b])
                   /\ startOrder[a] # startOrder[b]
    /\ \A k \in DOMAIN wrapper : wrapper[k] # "idle" <=> k \in Range(startOrder)
C10_Witness ==
    /\ Len(activeTasks) = MAX_PARALLEL_ANALYSTS
    /\ wrapper[5] = "pending"
    /\ wrapper[1] = "timed_out" /\ agent[1] = "running"
    /\ wrapper[4] = "rejected"

\* ids of the tasks in activeTasks
ActiveIds == {activeTasks[k].id : k \in DOMAIN activeTasks}

\* C11: at most MAX_PARALLEL_ANALYSTS tasks are executed, and they are chosen
\* by sorting by priority and then truncating: no dropped task has a strictly
\* higher priority than an executed one.
C11_DroppedNotHigherPriority ==
    opc # "start" =>
        /\ Len(activeTasks) <= MAX_PARALLEL_ANALYSTS
        /\ \A i \in DOMAIN tasks :
              tasks[i].id \notin ActiveIds =>
                  \A k \in DOMAIN activeTasks :
                      priorityOrder(tasks[i].priority) >= priorityOrder(activeTasks[k].priority)

\* x comes before y: a higher priority, or the same priority and submitted earlier
Precedes(x, y) ==
    \/ priorityOrder(tasks[x].priority) < priorityOrder(tasks[y].priority)
    \/ /\ tasks[x].priority = tasks[y].priority
       /\ x < y
IsResultSection(s) == s.kind = "result"
\* the per-result sections of mergedContext, in document order
MergedResultSections == SelectSeq(output.mergedContext, IsResultSection)

\* C12: analysts and the per-result sections of mergedContext are in priority
\* order, results of equal priority in task order; the order is fixed by the
\* tasks alone, whichever agent finished first; every completed result has
\* exactly one section in the merge, and the merge has no other result section.
C12_PriorityOrderStable ==
    Returned =>
        /\ \A a \in DOMAIN output.analysts : \A b \in DOMAIN output.analysts :
              a < b => Precedes(output.analysts[a].taskId, output.analysts[b].taskId)
        /\ \A a \in DOMAIN output.analysts :
              output.analysts[a].priority = tasks[output.analysts[a].taskId].priority
        /\ \A a \in DOMAIN MergedResultSections : \A b \in DOMAIN MergedResultSections :
              a < b => Precedes(MergedResultSections[a].taskId, MergedResultSections[b].taskId)
        /\ \A k \in DOMAIN wrapper :
              wrapper[k] = "fulfilled" =>
                  Cardinality({j \in DOMAIN MergedResultSections :
                                  MergedResultSections[j].taskId = activeTasks[k].id}) = 1
        /\ Len(MergedResultSections) =
              Cardinality({k \in DOMAIN wrapper : wrapper[k] = "fulfilled"})
C12_Witness ==
    /\ Returned
    /\ Len(output.analysts) = 4
    /\ output.analysts[1].taskId = 3 /\ output.analysts[2].taskId = 5
    /\ output.analysts[3].taskId = 1 /\ output.analysts[4].taskId = 4
    /\ output.failedTasks = <<2>>
    /\ wrapper[4] = "timed_out" /\ agent[4] = "running"

\* C13: runParallelAnalysts never raises when given at least one task, and
\* given an empty task list it raises instead of returning a result.
C13_RaisesOnlyOnEmpty ==
    /\ Len(tasks) >= 1 => output.status # "raised"
    /\ (Len(tasks) = 0 /\ opc # "start") => output.status = "raised"

(***************************************************************************)
(* The validator and the planning stage of run(): properties.               *)
(***************************************************************************)
PlanReturned == plan.status = "returned"
\* positions, in the planner's list, of the tasks the validator returned
KeptPositions == {plan.tasks[j].pos : j \in DOMAIN plan.tasks}
\* the tasks that survive validation, before the scale-down and the cap
Surviving == ValidatedTasks(raw.tasks)
AllNumeric(ts) == \A j \in DOMAIN ts : ts[j].max_tool_calls.t = "num"

\* C14: for every planner output the validator accepts, the sum of
\* max_tool_calls over the returned tasks is at most 70 (stated for returned
\* budgets that are numbers, which have a sum).
C14_BudgetSumWithinCeiling ==
    (PlanReturned /\ AllNumeric(plan.tasks)) =>
        TotalBudget(plan.tasks).n <= MAX_TOTAL_BUDGET

\* the planner's task at position p lacks an id, a title or a scope, or has
\* no non-empty question
C15_Unusable(p) ==
    LET t == raw.tasks[p]
    IN \/ ~t.isObject
       \/ t.id = 0 \/ t.title = "" \/ t.scope = ""
       \/ ~t.questions.isArray
       \/ \A i \in DOMAIN t.questions.items : t.questions.items[i] = ""
\* C15: every returned task has a non-empty id, title and scope and at least
\* one question, each question non-empty; a task missing id, title or scope,
\* or left with no question, is not among the returned tasks.
C15_ReturnedTasksUsable ==
    PlanReturned =>
        /\ \A j \in DOMAIN plan.tasks :
              LET t == plan.tasks[j]
              IN /\ t.id # 0 /\ t.title # "" /\ t.scope # ""
                 /\ Len(t.questions) >= 1
                 /\ \A i \in DOMAIN t.questions : t.questions[i] # ""
        /\ \A p \in DOMAIN raw.tasks : C15_Unusable(p) => p \notin KeptPositions
C15_Witness ==
    /\ PlanReturned
    /\ Len(raw.tasks) = 4
    /\ raw.tasks[1].scope = ""
    /\ raw.tasks[3].questions.items = <<"", "q">>
    /\ Len(plan.tasks) = 2
    /\ plan.tasks[1].pos = 3 /\ plan.tasks[1].questions = <<"q">>

\* C16: every returned task has max_tool_calls within 5..25; an absent
\* budget becomes 12 (when nothing is scaled down).
C16_BudgetInRange ==
    PlanReturned =>
        \A j \in DOMAIN plan.tasks :
            LET b == plan.tasks[j].max_tool_calls
            IN /\ b.t = "num"
               /\ MIN_TOOL_CALLS <= b.n /\ b.n <= MAX_TOOL_CALLS
               /\ (raw.tasks[plan.tasks[j].pos].max_tool_calls = Absent
                     /\ ~GreaterThan(TotalBudget(Surviving), MAX_TOTAL_BUDGET))
                    => b.n = DEFAULT_TOOL_CALLS

\* every task of the planner's list is well-formed and asks for budget k
C17_AllAsk(k) ==
    \A p \in DOMAIN raw.tasks :
        ~C15_Unusable(p) /\ raw.tasks[p].max_tool_calls = Num(k)
\* C17: when the clamped budgets of the surviving tasks sum to total > 70,
\* every returned budget b becomes b * 70 / total, rounded down and not below
\* the floor of 5; when the sum is at most 70 no budget changes; at most 10
\* tasks are returned; 12 tasks of budget 20 yield 10 tasks, each scaled to
\* 20 * 70 / 240, rounded down.
C17_ProportionalScaleDown ==
    PlanReturned =>
        LET surviving == Surviving
            total == TotalBudget(surviving)
        IN /\ Len(plan.tasks) <= TASK_CAP
           /\ \A j \in DOMAIN plan.tasks :
                 LET before == surviving[j].max_tool_calls
                     after == plan.tasks[j].max_tool_calls
                     scaled == (before.n * 70) \div total.n
                 IN /\ plan.tasks[j].pos = surviving[j].pos
                    /\ (total.t = "num" /\ total.n > 70) =>
                          after = Num(IF scaled < 5 THEN 5 ELSE scaled)
                    /\ (total.t = "num" /\ total.n <= 70) => after = before
           /\ (Len(raw.tasks) = 12 /\ C17_AllAsk(20)) =>
                 /\ Len(plan.tasks) = 10
                 /\ \A j \in DOMAIN plan.tasks : plan.tasks[j].max_tool_calls = Num(5)
C17_Witness ==
    /\ PlanReturned
    /\ Len(raw.tasks) = 12
    /\ C17_AllAsk(20)
    /\ raw.tasks[1].priority = "critical" /\ raw.tasks[12].priority = "medium"
    /\ Len(plan.tasks) = 10

\* C18: when more than 10 tasks survive validation, 10 are kept and no dropped
\* task has a strictly higher priority than a kept one.
C18_DropsLowestPriority ==
    (PlanReturned /\ Len(Surviving) > TASK_CAP) =>
        /\ Len(plan.tasks) = TASK_CAP
        /\ \A d \in DOMAIN Surviving : \A k \in DOMAIN plan.tasks :
              Surviving[d].pos \notin KeptPositions =>
                  priorityOrder(Surviving[d].priority) >= priorityOrder(plan.tasks[k].priority)

\* C19: the validator raises, and returns no task list, when the text is not
\* parseable, when tasks is not a list, or when the list is empty.
C19_HardErrors ==
    (rpc # "planning" /\ (raw.kind # "list" \/ raw.tasks = <<>>)) =>
        /\ plan.status = "raised"
        /\ "tasks" \notin DOMAIN plan
C19_Witness ==
    /\ rpc = "catch_review"
    /\ raw.kind = "list" /\ raw.tasks = <<>>
    /\ plan = [status |-> "raised", error |-> "no_tasks"]

\* planning raised, or left no valid task
C20_Degraded == plan.status = "raised" \/ (PlanReturned /\ plan.tasks = <<>>)
\* C20: if planning raises or leaves zero valid tasks, run() reports it, the
\* reviewer is invoked once, with an empty codebase context, the guide is
\* posted once, and the analysts are never launched (no task list, and so no
\* empty one, reaches the orchestrator).
C20_DegradedFallback ==
    /\ C20_Degraded =>
          /\ warnings # <<>>
          /\ Len(reviewerCalls) = 1 /\ reviewerCalls[1] = ""
          /\ postCalls <= 1
          /\ rpc = "done" => postCalls = 1
          /\ analystRuns = <<>>
    /\ \A j \in DOMAIN analystRuns : analystRuns[j] # <<>>

\* C29: at every moment of an orchestrator run at most BATCH_SIZE agent
\* loops are executing, also after an agent of an earlier batch has timed out.
C29_AtMostBatchSizeRunning ==
    Cardinality({k \in DOMAIN agent : agent[k] = "running"}) <= BATCH_SIZE

\* ids of the blocks of message m that have one of the given types
BlockIdsOf(m, types) ==
    LET blocks == SelectBlocks(m.content, types)
    IN [j \in DOMAIN blocks |-> blocks[j].id]
\* no element occurs twice in the sequence
NoRepeat(ids) == Cardinality(Range(ids)) = Len(ids)
\* the log starts with a user message and alternates; the tool invocations
\* of an assistant message are answered one for one in the message after it;
\* a request is sent with a user message last
C30_LogWellFormed ==
    /\ \A i \in DOMAIN messages :
          /\ messages[i].role = (IF i % 2 = 1 THEN "user" ELSE "assistant")
          /\ (messages[i].role = "assistant" /\ i < Len(messages)) =>
                LET answered == BlockIdsOf(messages[i + 1], {"tool_result"})
                    asked == BlockIdsOf(messages[i], {"tool_use"})
                IN /\ Range(answered) = Range(asked)
                   /\ NoRepeat(answered)
                   /\ NoRepeat(asked)
    /\ pc \in {"await_response", "await_final", "await_forced"} =>
          messages[Len(messages)].role = "user"
    /\ pc = "await_tool" => messages[Len(messages)].role = "assistant"
\* C30: the conversation of an agent is an append-only log that starts with
\* a user message and alternates user and assistant messages; every request
\* is sent with a user message last; the tool invocations of every assistant
\* message are answered one for one, by id, in the user message after it, on
\* every path.
C30_ConversationLog ==
    /\ []C30_LogWellFormed
    /\ [][/\ Len(messages') >= Len(messages)
          /\ \A i \in DOMAIN messages : messages'[i] = messages[i]]_vars
C30_Witness ==
    /\ pc = "done"
    /\ result.stopReason = "max_tokens"
    /\ Len(messages) = 5
    /\ Len(ToolUsesOf(messages[2])) = 2
    /\ ToolUsesOf(messages[4]) = <<>>
    /\ messages[4].content # <<>>

(***************************************************************************)
(* Snapping: properties.                                                    *)
(***************************************************************************)
\* the file of the call is in the map, and the sequence of the requested side
FilePresent == filename \in DOMAIN validLines
RequestedPool == IF side = "RIGHT" THEN validLines[filename].right ELSE validLines[filename].left
Returns(v) == snapped.called /\ snapped.value = v
ReturnsLine == snapped.called /\ ~snapped.value.isNull

\* C21: for a file and side present in the map, a non-null result of
\* snapToValidLine is a member of that file's sequence for that side.
C21_ResultIsValidLine ==
    (FilePresent /\ ReturnsLine) => snapped.value.line \in Range(RequestedPool)
C21_Witness ==
    /\ FilePresent /\ ReturnsLine
    /\ side = "LEFT"
    /\ snapped.value.line # requestedLine
    /\ Len(RequestedPool) = MaxPoolLines

\* C22: a line already in the sequence of its file and side is returned as
\* it is, and snapping a snap result again returns it unchanged.
C22_SnapIdempotent ==
    /\ (FilePresent /\ snapped.called /\ requestedLine \in Range(RequestedPool)) =>
          snapped.value = Line(requestedLine)
    /\ ReturnsLine =>
          snapToValidLine(filename, snapped.value.line, side, validLines) = snapped.value
C22_Witness ==
    /\ FilePresent /\ ReturnsLine
    /\ Len(RequestedPool) = MaxPoolLines
    /\ requestedLine = RequestedPool[2]

\* distance from the requested line to the nearest element of the sequence
C23_NearestDistance ==
    CHOOSE d \in {Abs(RequestedPool[i] - requestedLine) : i \in DOMAIN RequestedPool} :
        \A i \in DOMAIN RequestedPool : d <= Abs(RequestedPool[i] - requestedLine)
\* C23: for a file in the map the result is an element of the requested
\* side's sequence at the least distance from the requested line when that
\* distance is at most 20, and null when the sequence is empty or every
\* element is further away; for a file not in the map it is null.
C23_NearestWithinTolerance ==
    snapped.called =>
        IF ~FilePresent THEN snapped.value = NULL
        ELSE IF RequestedPool = <<>> THEN snapped.value = NULL
        ELSE IF C23_NearestDistance > 20 THEN snapped.value = NULL
        ELSE /\ ~snapped.value.isNull
             /\ snapped.value.line \in Range(RequestedPool)
             /\ Abs(snapped.value.line - requestedLine) = C23_NearestDistance
C23_Witness ==
    /\ FilePresent /\ ReturnsLine
    /\ Len(RequestedPool) = MaxPoolLines
    /\ requestedLine = 30
    /\ snapped.value.line = 36
    /\ 15 \in Range(RequestedPool)

\* the valid right-side lines of src/a.ts have maximum 14
C24_Scenario ==
    /\ snapped.called
    /\ filename = "src/a.ts" /\ side = "RIGHT"
    /\ validLines[filename].right # <<>>
    /\ validLines[filename].right[Len(validLines[filename].right)] = 14
\* C24 as claimed: in the scenario, requesting line 999 returns 14 and
\* requesting line 50 returns null.
C24_FarRequestSnapsToMax ==
    C24_Scenario =>
        /\ requestedLine = 999 => snapped.value = Line(14)
        /\ requestedLine = 50 => snapped.value = NULL
\* C24 as amended: in the scenario, requesting line 999 and requesting line
\* 50 both return null (985 and 36 lines away), and a request of 15 to 34
\* returns 14.
C24_FarRequestIsNull ==
    C24_Scenario =>
        /\ requestedLine = 999 => snapped.value = NULL
        /\ requestedLine = 50 => snapped.value = NULL
        /\ requestedLine \in 15..34 => snapped.value = Line(14)
C24_Witness ==
    /\ C24_Scenario
    /\ requestedLine = 999
    /\ snapped.value = NULL
    /\ Len(validLines[filename].right) = 4

(***************************************************************************)
(* Properties of the diff tools (SpecDiff).                                 *)
(***************************************************************************)
Parsed == dpc # "start" /\ dpc # "idle"

OverviewBuilt == dpc \in {"ready", "answered"}

Answered == dpc = "answered"

\* line i of the raw text lies inside a hunk: a "@@" line precedes it with no
\* "diff --git " line in between
InHunk(i) ==
    \E j \in 1..(i - 1) :
        /\ StartsWith(rawDiff[j], <<"@@">>)
        /\ \A k \in j..i : ~StartsWith(rawDiff[k], <<"diff --git ">>)

\* the "+++ b/path" and "--- a/path" lines that open the patch of a file
IsPlusHeaderLine(i) == StartsWith(rawDiff[i], <<"+", "+", "+">>) /\ ~InHunk(i)

IsMinusHeaderLine(i) == StartsWith(rawDiff[i], <<"-", "-", "-">>) /\ ~InHunk(i)

RawPlusLines ==
    {i \in DOMAIN rawDiff : StartsWith(rawDiff[i], <<"+">>) /\ ~IsPlusHeaderLine(i)}

RawMinusLines ==
    {i \in DOMAIN rawDiff : StartsWith(rawDiff[i], <<"-">>) /\ ~IsMinusHeaderLine(i)}

\* C25: once a diff is parsed, the additions of its entries add up to the
\* number of lines of the raw text that start with "+", the "+++" header
\* lines left out, and the deletions to the number of lines that start with
\* "-", the "---" header lines left out; content lines that begin with "++"
\* or "--" and sections whose header cannot be parsed count as well.
C25_CountsMatchRawText ==
    Parsed =>
        /\ SumOf(entries, "additions") = Cardinality(RawPlusLines)
        /\ SumOf(entries, "deletions") = Cardinality(RawMinusLines)

\* the entries a name (current or prior) stands for
EntriesNamed(name) ==
    {i \in DOMAIN entries :
        \/ entries[i].filename = name
        \/ "old_filename" \in DOMAIN entries[i] /\ entries[i].old_filename = name}

Known == EntriesNamed(input.filename) # {}

TheEntry == entries[CHOOSE i \in EntriesNamed(input.filename) : TRUE]

HunkHeaderCount(text) ==
    Cardinality({i \in DOMAIN text : StartsWith(text[i], <<"@@">>)})

IsError == "error" \in DOMAIN toolOutput

\* C26: a call of get_diff_for_file with the name of a parsed entry and no
\* hunk index returns a patch with as many hunk-header lines as the entry has
\* hunks; with a hunk index it reports as many hunks (total_hunks) as the
\* entry has, answers with the hunk asked for exactly when the index is one
\* of 0 .. entry.hunks.length - 1, and that hunk opens with the header of
\* the same index.
C26_HunkCountsAgree ==
    (Answered /\ Known) =>
        LET entry == TheEntry IN
        IF HasHunkIndex(input)
        THEN /\ toolOutput.total_hunks = Len(entry.hunks)
             /\ IsError <=> input.hunk_index \notin 0..(Len(entry.hunks) - 1)
             /\ ~IsError =>
                    /\ toolOutput.patch[1] = entry.hunks[input.hunk_index + 1]
                    /\ HunkHeaderCount(toolOutput.patch) = 1
        ELSE /\ ~IsError
             /\ HunkHeaderCount(toolOutput.patch) = Len(entry.hunks)
             /\ toolOutput.total_hunks = Len(entry.hunks)

\* the second of two hunks is asked for and returned
C26_Witness ==
    /\ Answered /\ Known
    /\ HasHunkIndex(input) /\ input.hunk_index = 1
    /\ Len(TheEntry.hunks) = 2
    /\ ~IsError
    /\ toolOutput.patch[1] = TheEntry.hunks[2]

StoredNames ==
    {entries[i].filename : i \in DOMAIN entries}
        \cup {entries[i].old_filename :
                 i \in {j \in DOMAIN entries : "old_filename" \in DOMAIN entries[j]}}

UnknownAsked == Answered /\ input.filename # <<>> /\ ~Known

FuzzyExists == \E n \in StoredNames : EndsWith(n, input.filename)

C27_UnknownNameGetsSuggestionAndSample ==
    UnknownAsked =>
        /\ IsError
        /\ FuzzyExists =>
              /\ "suggestion" \in DOMAIN toolOutput
              /\ toolOutput.suggestion \in StoredNames
              /\ EndsWith(toolOutput.suggestion, input.filename)
        /\ "available_files" \in DOMAIN toolOutput
        /\ StoredNames # {} =>
              /\ toolOutput.available_files # <<>>
              /\ \A i \in DOMAIN toolOutput.available_files :
                    toolOutput.available_files[i] \in StoredNames

C27_OutOfRangeStatesRange ==
    (Answered /\ Known /\ HasHunkIndex(input)
        /\ input.hunk_index \notin 0..(Len(TheEntry.hunks) - 1)) =>
            /\ IsError
            /\ toolOutput.error.first = 0
            /\ toolOutput.error.last = Len(TheEntry.hunks) - 1

C27_PriorNameResolves ==
    \A i \in DOMAIN entries :
        (Answered /\ "old_filename" \in DOMAIN entries[i]
            /\ input.filename = entries[i].old_filename) =>
                toolOutput = getDiffForFile(entries,
                                 [input EXCEPT !.filename = entries[i].filename])

C27_AlwaysAResult ==
    Answered => (IsError \/ "patch" \in DOMAIN toolOutput)

\* C27: get_diff_for_file always returns a result; for an unknown filename
\* the result is an error that carries a fuzzy suggestion (a stored name
\* ending with the requested one) when there is one, and a short sample of
\* the known filenames; for a hunk index out of range it is an error that
\* states the valid range; the prior name of a renamed file gives the same
\* result as its current name.
C27_ToolErrors ==
    /\ C27_AlwaysAResult
    /\ C27_UnknownNameGetsSuggestionAndSample
    /\ C27_OutOfRangeStatesRange
    /\ C27_PriorNameResolves

\* the diff of the scenario: src/a.ts (+3 -1, one hunk) and src/b.ts (new,
\* +20 -0)
C28_Scenario ==
    /\ OverviewBuilt
    /\ \E pre \in Preambles : rawDiff = RawDiffOf(pre, <<SectionA, SectionB>>)

LinesOfKind(kind) == SelectSeq(overview, LAMBDA l : l.kind = kind)

C28_Stats ==
    /\ LinesOfKind("file")[1].stat = [binary |-> FALSE, additions |-> 3, deletions |-> 1]
    /\ LinesOfKind("file")[1].statusTag = ""
    /\ LinesOfKind("file")[2].stat = [binary |-> FALSE, additions |-> 20, deletions |-> 0]
    /\ LinesOfKind("file")[2].statusTag = "ADDED"

\* the hunk lines between the line of file `name` and the next file or
\* directory line
HunkLinesUnder(name) ==
    LET at == CHOOSE i \in DOMAIN overview :
                  overview[i].kind = "file" /\ overview[i].name = name
    IN  {i \in DOMAIN overview :
            /\ i > at
            /\ overview[i].kind = "hunk"
            /\ \A j \in (at + 1)..i : overview[j].kind = "hunk"}

C28_OneHunkLineUnderA ==
    \E i \in DOMAIN overview :
        /\ HunkLinesUnder("a.ts") = {i}
        /\ overview[i].range = [single |-> FALSE, start |-> 10, end |-> 14]
        /\ overview[i].desc = <<"function f()">>

\* the range the overview shows for a hunk whose new side starts at `start`
\* and has `count` lines
ExpectedRange(start, count) ==
    IF count <= 1
    THEN [single |-> TRUE, start |-> start]
    ELSE [single |-> FALSE, start |-> start, end |-> start + count - 1]

\* the ranges of the hunk headers "+start[,count]" that the pattern reads
RangesOf(hunks) ==
    LET ranged == SelectSeq(hunks, LAMBDA h : RangeMatch(h).matched) IN
    [i \in DOMAIN ranged |->
        LET m == RangeMatch(ranged[i]) IN
        ExpectedRange(DigitValue[m.start],
                      IF m.count = "" THEN 1 ELSE DigitValue[m.count])]

\* under the line of each file come the lines of its hunks, in order
C28_RangeRule ==
    OverviewBuilt =>
        \A e \in DOMAIN entries :
            LET at == CHOOSE i \in DOMAIN overview :
                          /\ overview[i].kind = "file"
                          /\ overview[i].name = BaseName(entries[e].filename)
                expected == RangesOf(entries[e].hunks)
            IN  /\ \A k \in DOMAIN expected :
                      /\ overview[at + k].kind = "hunk"
                      /\ overview[at + k].range = expected[k]
                /\ overview[at + Len(expected) + 1].kind # "hunk"

\* the scenario as the specification states it
C28_TwoDirectoryGroups ==
    /\ C28_RangeRule
    /\ C28_Scenario =>
          /\ Len(LinesOfKind("dir")) = 2
          /\ C28_Stats
          /\ C28_OneHunkLineUnderA

\* C28: for a diff touching src/a.ts (+3 -1, one hunk "@@ -10,3 +10,5 @@
\* function f()") and src/b.ts (new file, +20 -0) the overview has one
\* directory group, src/, holding both files with the stats "+3 -1" and
\* "+20 -0 [ADDED]", and exactly one hunk line "L10-14 - function f()" under
\* a.ts; in every overview a hunk line shows start..start+count-1 of the new
\* side, and the start alone when the count is 0 or 1.
C28_OneDirectoryGroup ==
    /\ C28_RangeRule
    /\ C28_Scenario =>
          /\ Len(LinesOfKind("dir")) = 1
          /\ LinesOfKind("dir")[1].dir = <<"src">>
          /\ Len(LinesOfKind("file")) = 2
          /\ C28_Stats
          /\ C28_OneHunkLineUnderA

C28_Witness ==
    /\ C28_Scenario
    /\ Len(LinesOfKind("hunk")) = 2
    /\ overview[3] = [kind |-> "dir", dir |-> <<"src">>]

RECURSIVE JoinContents(_)
JoinContents(ms) == IF ms = <<>> THEN <<>> ELSE Head(ms).content \o JoinContents(Tail(ms))

RECURSIVE SumLen(_)
SumLen(bs) == IF bs = <<>> THEN 0 ELSE Head(bs).len + SumLen(Tail(bs))

(***************************************************************************)
(* Properties of the tool results of runSingleAnalyst (SpecAgent).          *)
(***************************************************************************)
\* the tool results placed in the conversation, and those of the round in
\* progress, which the end of the round places
PlacedResults ==
    SelectBlocks(JoinContents(messages), {"tool_result"})

RoundResults == IF pc = "await_tool" THEN toolResults ELSE <<>>

\* the length of the note "\n...[TRUNCATED - N chars. Use more specific queries.]"
NoteLength(stated) ==
    IF stated = 0 THEN 0
    ELSE TRUNCATION_NOTE_PREFIX_LEN + Digits(stated) + TRUNCATION_NOTE_SUFFIX_LEN

C31_WellFormed(b) ==
    /\ b.content.slice <= MAX_TOOL_RESULT_CHARS
    /\ b.content.original <= MAX_TOOL_RESULT_CHARS =>
          /\ b.content.slice = b.content.original
          /\ b.content.stated = 0
    /\ b.content.original > MAX_TOOL_RESULT_CHARS =>
          /\ b.content.slice = MAX_TOOL_RESULT_CHARS
          /\ b.content.stated = b.content.original
    /\ b.len = b.content.slice + NoteLength(b.content.stated)

\* C31: every tool result of the conversation holds at most 16,000
\* characters of the original result; an oversized one holds exactly 16,000
\* followed by a note stating the original length; and the running total of
\* characters is the sum of the lengths of the strings placed.
C31_ResultsTruncatedAndCounted ==
    LET placed == PlacedResults \o RoundResults IN
    /\ \A i \in DOMAIN placed : C31_WellFormed(placed[i])
    /\ totalToolResultChars = SumLen(placed)

\* an oversized and a short result are in the conversation
C31_Witness ==
    /\ \E i \in DOMAIN PlacedResults :
          /\ PlacedResults[i].content.original > MAX_TOOL_RESULT_CHARS
          /\ PlacedResults[i].len > MAX_TOOL_RESULT_CHARS
    /\ \E i \in DOMAIN PlacedResults :
          PlacedResults[i].content.stated = 0
    /\ pc = "done"

(***************************************************************************)
(* Termination and stop reasons of runSingleAnalyst.                        *)
(***************************************************************************)
AgentReturned == pc = "done"

C37_Limit == IF max_tool_calls = 0 THEN 20 ELSE max_tool_calls

\* what the loop makes of a budget: nothing when it is negative
C37_Bounds ==
    IF C37_Limit >= 1
    THEN /\ toolRequests <= C37_Limit
         /\ noToolRequests <= 1
         /\ AgentReturned =>
               (1 <= result.iterations /\ result.iterations <= C37_Limit)
    ELSE /\ toolRequests = 0
         /\ noToolRequests = 0
         /\ AgentReturned =>
               (result.iterations = 0 /\ result.stopReason = "unexpected_exit")

Validated == max_tool_calls \in MIN_TOOL_CALLS..MAX_TOOL_CALLS

\* C38: for a task with max_tool_calls in 5..25, runSingleAnalyst never
\* returns unexpected_exit: the loop condition is never found false, and the
\* stop reason returned is complete, max_tokens, context_budget or
\* max_iterations.
C38_NoUnexpectedExit ==
    Validated =>
        /\ pc = "loop" => iterations < maxIterations
        /\ AgentReturned =>
              result.stopReason \in
                  {"complete", "max_tokens", "context_budget", "max_iterations"}

\* the budget check fires on the last of the five rounds
C38_Witness ==
    /\ Validated
    /\ AgentReturned
    /\ result.stopReason = "max_iterations"
    /\ result.iterations = max_tool_calls

\* C39: for every ascending sequence without repeats and every requested
\* line, snapToValidLine with its binary search returns what the linear scan
\* of the earlier snapToValidLine returns: the same line, the lower one of
\* two equally distant neighbours, and null beyond 20 lines.
C39_BinarySearchEqualsLinearScan ==
    snapped.called =>
        snapped.value = snapToValidLineLinear(filename, requestedLine, side, validLines)

\* the requested line lies midway between two valid lines; the lower is returned
C39_Witness ==
    /\ snapped.called
    /\ FilePresent
    /\ \E i \in DOMAIN RequestedPool :
          /\ i < Len(RequestedPool)
          /\ requestedLine - RequestedPool[i] = RequestedPool[i + 1] - requestedLine
          /\ requestedLine > RequestedPool[i]
          /\ snapped.value = Line(RequestedPool[i])

(***************************************************************************)
(* The repository tools (repo-tools.ts) behind the executor the agent loop  *)
(* calls.  A path is the sequence of its segments.  A file is known by its  *)
(* number of lines, its size, and the lines on which the word "w" occurs.   *)
(* A tool either returns its result object or throws; either way it names   *)
(* the paths it handed to node:fs and the paths it added to fileCache.      *)
(***************************************************************************)
repoRoot == <<"work", "repo">>

\* input.<field> when the tool_use block does not give the field
Undefined == <<"/undefined">>

Arg(in, field) == IF field \in DOMAIN in THEN in[field] ELSE Undefined

Threw(msg, t) == [thrown |-> TRUE, message |-> msg, touched |-> t, cached |-> {}]

Gave(v, t, c) == [thrown |-> FALSE, value |-> v, touched |-> t, cached |-> c]

\* path.normalize of an absolute path: "." and empty segments go, ".."
\* steps up and stays at "/"
RECURSIVE Normalize(_, _)
Normalize(segs, acc) ==
    IF segs = <<>>
    THEN acc
    ELSE LET s == Head(segs) IN
         IF s = "." \/ s = ""
         THEN Normalize(Tail(segs), acc)
         ELSE IF s = ".."
         THEN Normalize(Tail(segs),
                        IF acc = <<>> THEN <<>> ELSE SubSeq(acc, 1, Len(acc) - 1))
         ELSE Normalize(Tail(segs), Append(acc, s))

\* path.join(repoRoot, filepath)
join(root, filepath) == Normalize(root \o filepath, <<>>)

RECURSIVE CommonPrefix(_, _)
CommonPrefix(a, b) ==
    IF a # <<>> /\ b # <<>> /\ Head(a) = Head(b)
    THEN 1 + CommonPrefix(Tail(a), Tail(b))
    ELSE 0

\* path.relative(from, to) of two normalized absolute paths
relative(from, to) ==
    LET k == CommonPrefix(from, to) IN
    [i \in 1..(Len(from) - k) |-> ".."] \o SubSeq(to, k + 1, Len(to))

\* rel.startsWith(".."): the segment names of the model that begin with two dots
StartsWithDotDot(rel) == rel # <<>> /\ rel[1] \in {"..", "..cfg"}

\* safePath without its test
safePathUnchecked(root, filepath) ==
    IF filepath = Undefined
    THEN [thrown |-> TRUE, message |-> "The path argument must be of type string"]
    ELSE [thrown |-> FALSE, resolved |-> join(root, filepath)]

\* rel.startsWith("/") is never true of what path.relative returns
safePath(root, filepath) ==
    IF filepath = Undefined
    THEN [thrown |-> TRUE, message |-> "The path argument must be of type string"]
    ELSE LET resolved == join(root, filepath)
             rel == relative(root, resolved)
         IN  IF StartsWithDotDot(rel)
             THEN [thrown |-> TRUE, message |-> "Path traversal not allowed"]
             ELSE [thrown |-> FALSE, resolved |-> resolved]

\* ---- the file system ----
File(n, hits, bytes) == [lines |-> n, hits |-> hits, bytes |-> bytes]

\* two files of the repository, one whose name begins with two dots, one of a
\* directory walkDir skips, and one file outside the repository
Disk ==
    (<<"work", "repo", "a.ts">> :> File(3, {2}, 30))
    @@ (<<"work", "repo", "src", "b.ts">> :> File(120, 1..40, 2400))
    @@ (<<"work", "repo", "..cfg">> :> File(1, {}, 0))
    @@ (<<"work", "repo", "node_modules", "m.js">> :> File(1, {1}, 8))
    @@ (<<"work", "secret">> :> File(2, {1}, 16))

IsPrefixOf(p, q) == Len(p) <= Len(q) /\ SubSeq(q, 1, Len(p)) = p

IsFile(d, p) == p \in DOMAIN d

IsDirectory(d, p) == \E f \in DOMAIN d : Len(f) > Len(p) /\ IsPrefixOf(p, f)

\* readLines(absPath): the cached lines, or readFile and a new cache entry
readLines(absPath, cache, d) ==
    IF absPath \in cache
    THEN [thrown |-> FALSE, file |-> d[absPath], touched |-> {}, cached |-> {}]
    ELSE IF IsFile(d, absPath)
    THEN [thrown |-> FALSE, file |-> d[absPath], touched |-> {absPath},
          cached |-> {absPath}]
    ELSE [thrown |-> TRUE,
          message |-> IF IsDirectory(d, absPath) THEN "EISDIR" ELSE "ENOENT",
          touched |-> {absPath}, cached |-> {}]

\* allLines[i - 1]: the text of line i, undefined outside the file
LineAt(file, i) == IF i \in 1..file.lines THEN <<"line", i>> ELSE <<"undefined">>

MAX_SEARCH_RESULTS_FULL == 30
MAX_SEARCH_RESULTS_PREVIEW == 5
MAX_GET_LINES == 100
MAX_LIST_FILES == 100

\* ---- search_in_file ----
IsRegexPattern(pattern) == StartsWith(pattern, <<"r", "e", ":">>)

\* new RegExp(body, "i") throws on the one malformed body of the model, "("
IsValidRegex(body) == body # <<"(">>

\* the lines regex.test accepts: a pattern about the word "w" finds the
\* lines that carry it, any other pattern finds none
MatchingLines(file, pattern) ==
    LET body == IF IsRegexPattern(pattern) THEN SubSeq(pattern, 4, Len(pattern))
                ELSE pattern
    IN  IF body = <<"w">> THEN file.hits ELSE {}

SearchMatch(file, l) ==
    [line_number |-> l,
     content |-> LineAt(file, l),
     context_before |-> IF l - 1 > 0 THEN LineAt(file, l - 1) ELSE <<"undefined">>,
     context_after |-> IF l - 1 < file.lines - 1 THEN LineAt(file, l + 1)
                       ELSE <<"undefined">>]

searchInFile(root, filepath, pattern, cache, d) ==
    IF pattern = Undefined
    THEN Threw("Cannot read properties of undefined (reading 'trim')", {})
    ELSE IF IsBlankLine(pattern)
    THEN Gave([filepath |-> filepath, pattern |-> pattern, total_matches |-> 0,
               matches |-> <<>>, truncated |-> FALSE, message |-> "Empty pattern."],
              {}, {})
    ELSE LET sp == safePath(root, filepath) IN
         IF sp.thrown
         THEN Threw(sp.message, {})
         ELSE LET rl == readLines(sp.resolved, cache, d) IN
              IF rl.thrown
              THEN Threw(rl.message, rl.touched)
              ELSE IF IsRegexPattern(pattern)
                      /\ ~IsValidRegex(SubSeq(pattern, 4, Len(pattern)))
              THEN Gave([filepath |-> filepath, pattern |-> pattern,
                         total_matches |-> 0, matches |-> <<>>, truncated |-> FALSE,
                         message |-> "Invalid regex"],
                        rl.touched, rl.cached)
              ELSE LET matchingIndices == SortedSeqOf(MatchingLines(rl.file, pattern))
                       totalMatches == Len(matchingIndices)
                   IN  IF totalMatches > MAX_SEARCH_RESULTS_FULL
                       THEN Gave([filepath |-> filepath, pattern |-> pattern,
                                  total_matches |-> totalMatches,
                                  matches |-> [i \in 1..MAX_SEARCH_RESULTS_PREVIEW |->
                                                 SearchMatch(rl.file, matchingIndices[i])],
                                  truncated |-> TRUE,
                                  message |-> "too many to return"],
                                 rl.touched, rl.cached)
                       ELSE Gave([filepath |-> filepath, pattern |-> pattern,
                                  total_matches |-> totalMatches,
                                  matches |-> [i \in 1..totalMatches |->
                                                 SearchMatch(rl.file, matchingIndices[i])],
                                  truncated |-> FALSE],
                                 rl.touched, rl.cached)

\* ---- get_lines ----
\* a number of the input is held in tenths: 15 is 1.5
floor(tenths) == tenths \div 10

MaxOf(a, b) == IF a > b THEN a ELSE b
MinOf(a, b) == IF a < b THEN a ELSE b

getLines(root, filepath, startLine, endLine, cache, d) ==
    LET sp == safePath(root, filepath) IN
    IF sp.thrown
    THEN Threw(sp.message, {})
    ELSE LET rl == readLines(sp.resolved, cache, d) IN
         IF rl.thrown
         THEN Threw(rl.message, rl.touched)
         ELSE LET totalLines == rl.file.lines
                  clampedStart == MaxOf(1, floor(startLine))
                  clampedEnd == MinOf(totalLines, floor(endLine))
                  start == IF clampedStart > clampedEnd THEN clampedEnd ELSE clampedStart
                  swappedEnd == IF clampedStart > clampedEnd THEN clampedStart
                                ELSE clampedEnd
                  end == IF swappedEnd - start + 1 > MAX_GET_LINES
                         THEN start + MAX_GET_LINES - 1
                         ELSE swappedEnd
              IN  Gave([filepath |-> filepath,
                        start_line |-> start,
                        end_line |-> end,
                        total_lines_in_file |-> totalLines,
                        lines |-> [k \in 1..(end - start + 1) |->
                                     [line_number |-> start + k - 1,
                                      content |-> LineAt(rl.file, start + k - 1)]]],
                       rl.touched, rl.cached)

\* ---- get_file_info ----
getFileInfo(root, filepath, cache, d) ==
    LET sp == safePath(root, filepath) IN
    IF sp.thrown
    THEN Threw(sp.message, {})
    ELSE IF ~IsFile(d, sp.resolved)
    THEN Gave([filepath |-> filepath, exists |-> FALSE], {sp.resolved}, {})
    ELSE LET rl == readLines(sp.resolved, cache, d) IN
         Gave([filepath |-> filepath, exists |-> TRUE,
               line_count |-> rl.file.lines, byte_size |-> rl.file.bytes],
              {sp.resolved}, rl.cached)

\* ---- list_files ----
SkippedDirs ==
    {"node_modules", ".git", "dist", "build", ".next", "__pycache__", ".venv", "vendor"}

\* walkDir(dir): the files below dir that no skipped directory hides
Walked(d, dir) ==
    {f \in DOMAIN d :
        /\ Len(f) > Len(dir)
        /\ IsPrefixOf(dir, f)
        /\ \A i \in (Len(dir) + 1)..(Len(f) - 1) : f[i] \notin SkippedDirs}

\* the directories walkDir hands to readdir
WalkedDirs(d, dir) ==
    {dir} \cup UNION {{SubSeq(f, 1, n) : n \in (Len(dir) + 1)..(Len(f) - 1)}
                        : f \in Walked(d, dir)}

StarDotTs == <<"*", ".", "t", "s">>

\* matchesPattern(basename, "*.ts"): the names of the model that end in .ts
matchesPattern(name, pattern) == pattern = StarDotTs /\ name \in {"a.ts", "b.ts"}

\* matched.slice(0, MAX_LIST_FILES); readdir fixes no order, so which files
\* make the first hundred is open
SliceOfSet(S, n) ==
    IF Cardinality(S) <= n THEN S ELSE CHOOSE T \in SUBSET S : Cardinality(T) = n

listFiles(root, directory, pattern, d) ==
    LET sp == safePath(root, directory) IN
    IF sp.thrown
    THEN Threw(sp.message, {})
    ELSE LET allFiles == {relative(root, f) : f \in Walked(d, sp.resolved)}
             matched == IF pattern # Undefined /\ pattern # <<>>
                        THEN {f \in allFiles : matchesPattern(f[Len(f)], pattern)}
                        ELSE allFiles
         IN  Gave([directory |-> directory,
                   pattern |-> pattern,
                   total_files |-> Cardinality(allFiles),
                   matched_files |-> Cardinality(matched),
                   files |-> SliceOfSet(matched, MAX_LIST_FILES),
                   truncated |-> Cardinality(matched) > MAX_LIST_FILES],
                  WalkedDirs(d, sp.resolved), {})

\* ---- executeTool ----
Dispatch(root, toolName, in, cache, d) ==
    CASE toolName = "search_in_file" ->
           searchInFile(root, Arg(in, "filepath"), Arg(in, "pattern"), cache, d)
      [] toolName = "get_lines" ->
           getLines(root, Arg(in, "filepath"), in.start_line, in.end_line, cache, d)
      [] toolName = "get_file_info" ->
           getFileInfo(root, Arg(in, "filepath"), cache, d)
      [] toolName = "list_files" ->
           listFiles(root, Arg(in, "directory"), Arg(in, "pattern"), d)
      [] OTHER ->
           Gave([error |-> [text |-> "Unknown tool", tool |-> toolName]], {}, {})

\* executeTool without its catch
executeToolUncaught(root, toolName, in, cache, d) ==
    Dispatch(root, toolName, in, cache, d)

executeTool(root, toolName, in, cache, d) ==
    LET r == Dispatch(root, toolName, in, cache, d) IN
    IF r.thrown
    THEN Gave([error |-> [text |-> "Tool failed", tool |-> toolName,
                          message |-> r.message]],
              r.touched, r.cached)
    ELSE r

\* analyst-agent.ts: the function createToolExecutor returns
createToolExecutor(root, es, toolName, in, cache, d) ==
    IF toolName = "get_diff_for_file"
    THEN Gave(getDiffForFile(es, in), {}, {})
    ELSE executeTool(root, toolName, in, cache, d)

\* ---- the calls of a round ----
\* most tool_use blocks of the one reply
MaxToolBlocks == 2

PathInputs ==
    { <<"a.ts">>, <<"src", "b.ts">>, <<"src">>, <<"missing.ts">>, <<".">>, <<"..cfg">>,
      <<"..", "secret">>, <<"src", "..", "..", "secret">>, <<"", "work", "secret">>,
      Undefined }

PatternInputs == { <<>>, <<" ">>, <<"w">>, <<"r", "e", ":", "(">>, Undefined }

\* start_line and end_line, in tenths
LineNumberInputs == {-30, 0, 15, 30, 2500}

\* a field of an input object, absent when it has no value
Field(name, v) == IF v = Undefined THEN <<>> ELSE (name :> v)

ToolUse(toolName, in) == [name |-> toolName, input |-> in]

ToolCalls ==
    {ToolUse("search_in_file", Field("filepath", p) @@ Field("pattern", q))
        : p \in PathInputs, q \in PatternInputs}
    \cup {ToolUse("get_lines", Field("filepath", p) @@ [start_line |-> a, end_line |-> b])
        : p \in PathInputs, a \in LineNumberInputs, b \in LineNumberInputs}
    \cup {ToolUse("get_file_info", Field("filepath", p)) : p \in PathInputs}
    \cup {ToolUse("list_files", Field("directory", p) @@ Field("pattern", q))
        : p \in PathInputs, q \in {Undefined, <<>>, StarDotTs}}
    \cup {ToolUse("get_diff_for_file", [filename |-> f]) : f \in FilenameInputsOf(entries)}
    \cup {ToolUse("run_command", [command |-> "ls"])}

IsErrorResult(v) == "error" \in DOMAIN v

InitTools ==
    /\ IdleAgentVars
    /\ IdleOrchVars
    /\ IdleRunVars
    /\ IdleSnapVars
    /\ IdleCommentVars
    /\ rawDiff = RawDiffOf(<<>>, <<SectionA>>)
    /\ entries = parseDiff(rawDiff)
    /\ overview = <<>>
    /\ input = [filename |-> <<>>]
    /\ toolOutput = NoOutput
    /\ dpc = "idle"
    /\ disk = Disk
    /\ fileCache = {}
    /\ touched = {}
    /\ toolCall = [name |-> "none"]
    /\ toolOut = [kind |-> "none"]
    /\ callsMade = 0
    /\ fed = <<>>
    /\ tpc = "round"

\* analyst-agent.ts 295-327: one tool_use block of the reply.  The call is
\* counted, the executor is awaited, and what it returns becomes the block's
\* tool_result; when the executor throws, the loop is left.
RunToolUse ==
    /\ tpc = "round"
    /\ callsMade < MaxToolBlocks
    /\ \E c \in ToolCalls :
          LET r == createToolExecutor(repoRoot, entries, c.name, c.input, fileCache, disk)
          IN  /\ toolCall' = c
              /\ callsMade' = callsMade + 1
              /\ touched' = r.touched
              /\ fileCache' = fileCache \cup r.cached
              /\ IF r.thrown
                 THEN /\ toolOut' = [kind |-> "raised", message |-> r.message]
                      /\ fed' = fed
                      /\ tpc' = "raised"
                 ELSE /\ toolOut' = r.value
                      /\ fed' = Append(fed, [type |-> "tool_result",
                                             tool_use_id |-> callsMade + 1,
                                             isError |-> IsErrorResult(r.value)])
                      /\ tpc' = "round"
    /\ UNCHANGED disk
    /\ UNCHANGED otherThanTools

\* analyst-agent.ts 369: messages.push({ role: "user", content: toolResults })
FeedBack ==
    /\ tpc = "round"
    /\ callsMade >= 1
    /\ tpc' = "fed"
    /\ UNCHANGED <<disk, fileCache, touched, toolCall, toolOut, callsMade, fed>>
    /\ UNCHANGED otherThanTools

NextTools == RunToolUse \/ FeedBack

SpecTools == InitTools /\ [][NextTools]_vars

\* ---- what the claims about the tools speak of ----
RepoToolNames == {"search_in_file", "get_lines", "get_file_info", "list_files"}

\* the path the last call names
CallPath ==
    IF toolCall.name = "list_files"
    THEN Arg(toolCall.input, "directory")
    ELSE Arg(toolCall.input, "filepath")

InsideRoot(abs) == IsPrefixOf(repoRoot, abs)

ResolvesOutside(p) == p # Undefined /\ ~InsideRoot(join(repoRoot, p))

CallPattern == Arg(toolCall.input, "pattern")

\* search_in_file answers a blank pattern before it looks at the path
BlankSearch ==
    /\ toolCall.name = "search_in_file"
    /\ CallPattern # Undefined
    /\ IsBlankLine(CallPattern)

UnknownToolCalled ==
    toolCall.name \notin RepoToolNames \cup {"get_diff_for_file", "none"}

RejectedPathCalled ==
    /\ toolCall.name \in RepoToolNames
    /\ ~BlankSearch
    /\ CallPath = Undefined \/ ResolvesOutside(CallPath)

\* search_in_file and get_lines read the file: it is missing, or a directory
UnreadableFileCalled ==
    /\ toolCall.name \in {"search_in_file", "get_lines"}
    /\ ~BlankSearch
    /\ CallPath # Undefined
    /\ ~ResolvesOutside(CallPath)
    /\ ~IsFile(disk, join(repoRoot, CallPath))

UnknownDiffFileCalled ==
    /\ toolCall.name = "get_diff_for_file"
    /\ toolCall.input.filename = UnknownName

FailingCall ==
    UnknownToolCalled \/ RejectedPathCalled \/ UnreadableFileCalled \/ UnknownDiffFileCalled

\* C32: a failing tool call (unknown tool, missing or unreadable file,
\* rejected path, unknown diff filename) never raises into the loop: the
\* executor returns an error result, that result is the call's tool_result,
\* the call counts as one tool call, and the round goes on.
C32_FailuresAreResults ==
    /\ tpc # "raised"
    /\ Len(fed) = callsMade
    /\ \A i \in DOMAIN fed : fed[i].tool_use_id = i
    /\ callsMade >= 1 =>
          /\ fed[callsMade].isError = IsErrorResult(toolOut)
          /\ FailingCall => IsErrorResult(toolOut)

\* a second call was made after a failed one, and fails as well
C32_Witness ==
    /\ callsMade = 2
    /\ fed[1].isError
    /\ RejectedPathCalled
    /\ IsErrorResult(toolOut)
    /\ tpc = "round"

\* C34 (as claimed): whatever start_line and end_line are, get_lines returns
\* at most 100 lines, each numbered within 1..total_lines_in_file.
C34_WindowWithinFile ==
    (toolCall.name = "get_lines" /\ ~IsErrorResult(toolOut)) =>
        /\ Len(toolOut.lines) <= 100
        /\ \A k \in DOMAIN toolOut.lines :
              toolOut.lines[k].line_number \in 1..toolOut.total_lines_in_file

\* the part of C34 the code keeps: never more than 100 lines
C34_AtMostHundredLines ==
    (toolCall.name = "get_lines" /\ ~IsErrorResult(toolOut)) =>
        Len(toolOut.lines) <= 100

NothingReadOutside == \A p \in touched : InsideRoot(p)

\* C35 (as claimed): a repository tool called with a path that resolves
\* outside the root returns an error result and reads nothing outside.
C35_OutsidePathIsError ==
    (toolCall.name \in RepoToolNames /\ ResolvesOutside(CallPath)) =>
        /\ IsErrorResult(toolOut)
        /\ NothingReadOutside

EmptyPatternAnswer ==
    /\ BlankSearch
    /\ ~IsErrorResult(toolOut)
    /\ toolOut.total_matches = 0
    /\ toolOut.matches = <<>>
    /\ toolOut.message = "Empty pattern."
    /\ touched = {}

C35_Rejected ==
    /\ NothingReadOutside
    /\ (toolCall.name \in RepoToolNames /\ ResolvesOutside(CallPath)) =>
          IF BlankSearch THEN EmptyPatternAnswer ELSE IsErrorResult(toolOut)

\* C35: a repository tool called with a path that resolves outside the root
\* returns an error result, except search_in_file with a blank pattern, which
\* returns its empty-pattern answer without looking at the path; no call
\* hands node:fs a path outside the root, and no call changes the file system.
C35_TraversalRejected ==
    /\ []C35_Rejected
    /\ [][disk' = disk]_vars

\* get_lines asked for a file above the root through a path that begins inside
C35_Witness ==
    /\ toolCall.name = "get_lines"
    /\ CallPath = <<"src", "..", "..", "secret">>
    /\ IsErrorResult(toolOut)
    /\ touched = {}

(***************************************************************************)
(* buildValidLineMap and buildInlineComments (pr-review-guide.ts).  A patch *)
(* is the sequence of its lines, a line the sequence of its tokens, as in   *)
(* the diff tools above.  The map is a function from the filenames that     *)
(* have a patch to their two sequences.                                     *)
(***************************************************************************)

\* line.match(/^@@ -(\d+)(?:,\d+)? \+(\d+)(?:,\d+)? @@/): groups 1 and 2
hunkMatch(line) ==
    LET m == RangeMatch(line) IN
    [matched |-> m.matched, oldStart |-> At(line, 3), newStart |-> m.start]

\* the walk's state: the two counters and the numbers pushed so far
WalkStart == [leftLine |-> 0, rightLine |-> 0, left |-> {}, right |-> {}]

\* StepLine with a removed line advancing the right counter as well
StepLineRemovedAdvancesBoth(w, line) ==
    LET m == hunkMatch(line) IN
    IF m.matched
    THEN [w EXCEPT !.leftLine = parseInt(m.oldStart), !.rightLine = parseInt(m.newStart)]
    ELSE IF At(line, 1) = "-"
    THEN [w EXCEPT !.left = @ \cup {w.leftLine}, !.leftLine = @ + 1, !.rightLine = @ + 1]
    ELSE IF At(line, 1) = "+"
    THEN [w EXCEPT !.right = @ \cup {w.rightLine}, !.rightLine = @ + 1]
    ELSE IF At(line, 1) = " " \/ line = <<>>
    THEN [w EXCEPT !.left = @ \cup {w.leftLine}, !.right = @ \cup {w.rightLine},
                   !.leftLine = @ + 1, !.rightLine = @ + 1]
    ELSE w

\* the body of "for (const line of lines)"
StepLine(w, line) ==
    LET m == hunkMatch(line) IN
    IF m.matched
    THEN [w EXCEPT !.leftLine = parseInt(m.oldStart), !.rightLine = parseInt(m.newStart)]
    ELSE IF At(line, 1) = "-"
    THEN [w EXCEPT !.left = @ \cup {w.leftLine}, !.leftLine = @ + 1]
    ELSE IF At(line, 1) = "+"
    THEN [w EXCEPT !.right = @ \cup {w.rightLine}, !.rightLine = @ + 1]
    ELSE IF At(line, 1) = " " \/ line = <<>>
    THEN [w EXCEPT !.left = @ \cup {w.leftLine}, !.right = @ \cup {w.rightLine},
                   !.leftLine = @ + 1, !.rightLine = @ + 1]
    ELSE w

RECURSIVE WalkPatch(_, _, _)
WalkPatch(lines, i, w) ==
    IF i > Len(lines) THEN w ELSE WalkPatch(lines, i + 1, StepLine(w, lines[i]))

\* !file.patch: no patch field, or the empty string
HasPatch(file) == "patch" \in DOMAIN file /\ file.patch # << <<>> >>

\* the value map.set stores for a file
SidesOf(file) ==
    LET w == WalkPatch(SplitLines(file.patch), 1, WalkStart) IN
    [left |-> SortedSeqOf(w.left), right |-> SortedSeqOf(w.right)]

\* a later file of the same name replaces the earlier entry
buildValidLineMap(fs) ==
    LET named == {fs[i].filename : i \in {j \in DOMAIN fs : HasPatch(fs[j])}}
        lastOf(f) == CHOOSE i \in DOMAIN fs :
                        /\ HasPatch(fs[i]) /\ fs[i].filename = f
                        /\ \A j \in DOMAIN fs :
                              (HasPatch(fs[j]) /\ fs[j].filename = f) => j <= i
    IN  [f \in named |-> SidesOf(fs[lastOf(f)])]

\* ---- buildInlineComments ----
\* changeToStep: the last step that lists the change, or none
StepOf(g, changeId) ==
    LET listing == {i \in DOMAIN g.review_steps :
                      \E k \in DOMAIN g.review_steps[i].change_ids :
                          g.review_steps[i].change_ids[k] = changeId}
    IN  IF listing = {} THEN 0
        ELSE g.review_steps[CHOOSE i \in listing : \A j \in listing : j <= i].step_number

\* body.join("\n"): what the text is made of
BodyOf(g, change, i) ==
    IF i = 1
    THEN [primary |-> TRUE, step |-> StepOf(g, change.id), title |-> change.title,
          alsoAppliesTo |-> [j \in 1..(Len(change.locations) - 1) |->
                               [filename |-> change.locations[j + 1].filename,
                                end_line |-> change.locations[j + 1].end_line]]]
    ELSE [primary |-> FALSE, step |-> StepOf(g, change.id), title |-> change.title,
          primaryFile |-> change.locations[1].filename]

\* CommentsOfLocation setting start_line whenever the start snaps
CommentsOfLocationAnyStart(g, change, i, map) ==
    LET loc == change.locations[i] IN
    IF loc.filename \notin DOMAIN map
    THEN <<>>
    ELSE LET validLine == snapToValidLine(loc.filename, loc.end_line, loc.side, map) IN
         IF validLine.isNull
         THEN <<>>
         ELSE LET comment == [path |-> loc.filename, line |-> validLine.line,
                              side |-> loc.side, body |-> BodyOf(g, change, i)]
                  validStart == snapToValidLine(loc.filename, loc.start_line, loc.side,
                                                map)
              IN  IF loc.start_line < loc.end_line /\ ~validStart.isNull
                  THEN << comment @@ [start_line |-> validStart.line] >>
                  ELSE << comment >>

\* the body of the inner loop: the comment pushed for a location, or none
CommentsOfLocation(g, change, i, map) ==
    LET loc == change.locations[i] IN
    IF loc.filename \notin DOMAIN map
    THEN <<>>
    ELSE LET validLine == snapToValidLine(loc.filename, loc.end_line, loc.side, map) IN
         IF validLine.isNull
         THEN <<>>
         ELSE LET comment == [path |-> loc.filename, line |-> validLine.line,
                              side |-> loc.side, body |-> BodyOf(g, change, i)]
                  validStart == snapToValidLine(loc.filename, loc.start_line, loc.side,
                                                map)
              IN  IF /\ loc.start_line < loc.end_line
                     /\ ~validStart.isNull
                     /\ validStart.line < validLine.line
                  THEN << comment @@ [start_line |-> validStart.line] >>
                  ELSE << comment >>

RECURSIVE CommentsOfChange(_, _, _, _)
CommentsOfChange(g, change, i, map) ==
    IF i > Len(change.locations) THEN <<>>
    ELSE CommentsOfLocation(g, change, i, map) \o CommentsOfChange(g, change, i + 1, map)

RECURSIVE CommentsOfChanges(_, _, _)
CommentsOfChanges(g, k, map) ==
    IF k > Len(g.logical_changes) THEN <<>>
    ELSE CommentsOfChange(g, g.logical_changes[k], 1, map)
             \o CommentsOfChanges(g, k + 1, map)

buildInlineComments(g, map) == CommentsOfChanges(g, 1, map)

\* ---- the pull requests and the guides ----
\* most lines of a patch after its first hunk header
MaxPatchLines == 3

HunkAt10 == <<"@@", " -", "10", ",", "3", " +", "20", ",", "3", " @@">>
HunkAt40 == <<"@@", " -", "40", " +", "41", " @@">>
\* a header that goes back over lines already walked
HunkAt5 == <<"@@", " -", "5", " +", "20", " @@">>
NoNewline == <<"\\", " No newline at end of file">>

PatchLineInputs == {Added, Removed, Context, <<>>, NoNewline, HunkAt40, HunkAt5}

Patches ==
    {<<HunkAt10>> \o body :
        body \in UNION {[1..n -> PatchLineInputs] : n \in 0..MaxPatchLines}}

\* a file with a patch, a binary file without one, a file whose patch is ""
FilesOf(p) ==
    << [filename |-> "src/a.ts", patch |-> p],
       [filename |-> "img/logo.png"],
       [filename |-> "src/e.ts", patch |-> << <<>> >>] >>

LocLines == {11, 21, 64}

Location(f, a, b, s) == [filename |-> f, start_line |-> a, end_line |-> b, side |-> s]

FirstLocations ==
    {Location("src/a.ts", a, b, s) : a \in LocLines, b \in LocLines, s \in {"LEFT", "RIGHT"}}
    \cup {Location("img/logo.png", 11, 21, "RIGHT")}

MoreLocations ==
    {<<>>, <<Location("src/a.ts", 11, 21, "LEFT")>>, <<Location("src/e.ts", 11, 11, "RIGHT")>>}

Guides ==
    {[logical_changes |-> << [id |-> "c1", title |-> "t1", locations |-> <<l>> \o more] >>,
      review_steps |-> << [step_number |-> 1, change_ids |-> <<"c1">>] >>]
        : l \in FirstLocations, more \in MoreLocations}

NoGuide == [logical_changes |-> <<>>, review_steps |-> <<>>]

InitComments ==
    /\ IdleAgentVars
    /\ IdleOrchVars
    /\ IdleRunVars
    /\ IdleSnapVars
    /\ IdleDiffVars
    /\ IdleToolVars
    /\ \E p \in Patches : prFiles = FilesOf(p)
    /\ lineMap = <<>>
    /\ reviewGuide = NoGuide
    /\ inlineComments = <<>>
    /\ cpc = "start"

\* pr-review-guide.ts 1072: const validLines = buildValidLineMap(files)
BuildValidLineMap ==
    /\ cpc = "start"
    /\ lineMap' = buildValidLineMap(prFiles)
    /\ cpc' = "mapped"
    /\ UNCHANGED <<prFiles, reviewGuide, inlineComments>>
    /\ UNCHANGED otherThanComments

\* pr-review-guide.ts 998: const inlineComments = buildInlineComments(guide, validLines)
BuildInlineComments ==
    /\ cpc = "mapped"
    /\ \E g \in Guides :
          /\ reviewGuide' = g
          /\ inlineComments' = buildInlineComments(g, lineMap)
    /\ cpc' = "built"
    /\ UNCHANGED <<prFiles, lineMap>>
    /\ UNCHANGED otherThanComments

NextComments == BuildValidLineMap \/ BuildInlineComments

SpecComments == InitComments /\ [][NextComments]_vars

\* ---- what the claims about the comments speak of ----
IsHunkHeader(line) == hunkMatch(line).matched

RecordsLeft(line) ==
    ~IsHunkHeader(line) /\ (At(line, 1) = "-" \/ At(line, 1) = " " \/ line = <<>>)

RecordsRight(line) ==
    ~IsHunkHeader(line) /\ (At(line, 1) = "+" \/ At(line, 1) = " " \/ line = <<>>)

\* the last hunk header before line i of the patch, 0 when there is none
HunkBefore(p, i) ==
    LET hs == {j \in 1..(i - 1) : IsHunkHeader(p[j])} IN
    IF hs = {} THEN 0 ELSE CHOOSE j \in hs : \A k \in hs : k <= j

\* the old-file number of line i: its hunk's -oldStart and one more for each
\* earlier line of the hunk that is removed or context
LeftNumber(p, i) ==
    LET h == HunkBefore(p, i) IN
    (IF h = 0 THEN 0 ELSE parseInt(hunkMatch(p[h]).oldStart))
        + Cardinality({j \in (h + 1)..(i - 1) : RecordsLeft(p[j])})

RightNumber(p, i) ==
    LET h == HunkBefore(p, i) IN
    (IF h = 0 THEN 0 ELSE parseInt(hunkMatch(p[h]).newStart))
        + Cardinality({j \in (h + 1)..(i - 1) : RecordsRight(p[j])})

StrictlyIncreasing(s) == \A i \in 1..(Len(s) - 1) : s[i] < s[i + 1]

Members(s) == {s[i] : i \in DOMAIN s}

PatchedFiles == {i \in DOMAIN prFiles : HasPatch(prFiles[i])}

\* C33: buildValidLineMap re-seeds two counters from every hunk header; a
\* context line (the empty line counts as one) records and advances left and
\* right, a removed line only left, an added line only right, any other line
\* neither; each side is stored strictly increasing, without a repeated line.
C33_LineMapFollowsPatch ==
    cpc # "start" =>
        /\ DOMAIN lineMap = {prFiles[i].filename : i \in PatchedFiles}
        /\ \A i \in PatchedFiles :
              LET p == prFiles[i].patch
                  sides == lineMap[prFiles[i].filename]
              IN  /\ StrictlyIncreasing(sides.left)
                  /\ StrictlyIncreasing(sides.right)
                  /\ Members(sides.left) =
                        {LeftNumber(p, k) : k \in {j \in DOMAIN p : RecordsLeft(p[j])}}
                  /\ Members(sides.right) =
                        {RightNumber(p, k) : k \in {j \in DOMAIN p : RecordsRight(p[j])}}

\* a removed line, then an added line and the no-newline marker
C33_Witness ==
    /\ cpc = "mapped"
    /\ prFiles[1].patch = <<HunkAt10, Removed, Added, NoNewline>>
    /\ lineMap["src/a.ts"] = [left |-> <<10>>, right |-> <<20>>]

AllLocations ==
    Flatten([k \in DOMAIN reviewGuide.logical_changes |->
               reviewGuide.logical_changes[k].locations])

SequenceOf(path, s) ==
    IF s = "LEFT" THEN lineMap[path].left ELSE lineMap[path].right

\* the file is in the map and a line of its side lies within 20 of end_line
Placeable(loc) ==
    /\ loc.filename \in DOMAIN lineMap
    /\ \E v \in Members(SequenceOf(loc.filename, loc.side)) :
          Abs(v - loc.end_line) <= 20

\* C36: every inline comment is anchored on a line of the ValidLineMap
\* sequence of its file and side; a location whose file is not in the map or
\* whose end line cannot be snapped gives no comment; start_line, when set,
\* is a line of the same sequence strictly smaller than line.
C36_CommentsOnValidLines ==
    cpc = "built" =>
        LET placed == SelectSeq(AllLocations, Placeable) IN
        /\ Len(inlineComments) = Len(placed)
        /\ \A k \in DOMAIN inlineComments :
              LET c == inlineComments[k] IN
              /\ k <= Len(placed)
              /\ c.path = placed[k].filename
              /\ c.side = placed[k].side
              /\ c.path \in DOMAIN lineMap
              /\ c.line \in Members(SequenceOf(c.path, c.side))
              /\ "start_line" \in DOMAIN c =>
                    /\ c.start_line \in Members(SequenceOf(c.path, c.side))
                    /\ c.start_line < c.line

\* one location dropped, one comment with a start line
C36_Witness ==
    /\ cpc = "built"
    /\ Len(inlineComments) < Len(AllLocations)
    /\ \E k \in DOMAIN inlineComments : "start_line" \in DOMAIN inlineComments[k]

====
